---- MODULE Spec2Model ----
(***************************************************************************)
(* Segment-id allocation of the Cisco n1kv plugin (VLAN and VXLAN tables,  *)
(* quantum/plugins/cisco/db/n1kv_db_v2.py) and of the ML2 GRE type driver  *)
(* (neutron/plugins/ml2/drivers/type_gre.py).                              *)
(*                                                                         *)
(* Spec     : the handlers run one at a time, each as one transaction.     *)
(* ConcSpec : NumCallers request handlers run reservations concurrently;   *)
(*            each transaction is a read step followed by a flush/commit   *)
(*            step, with the row locks SELECT ... FOR UPDATE takes.        *)
(*                                                                         *)
(* The three allocation tables are disjoint and no handler reads another   *)
(* segment type's table; a behaviour exercises the table of one segment    *)
(* type, chosen in Init (variable driver).                                 *)
(***************************************************************************)
EXTENDS Integers, FiniteSets, Sequences, TLC

VARIABLES
    driver,             \* segment type exercised by this behaviour
    vlan_allocations,   \* table N1kvVlanAllocation
    vxlan_allocations,  \* table N1kvVxlanAllocation
    gre_allocations,    \* table ml2_gre_allocations
    gre_id_ranges,      \* GreTypeDriver.gre_id_ranges
    last,               \* the last completed call: name, arguments, outcome
    before,             \* the rows of the table when that call started
    scenario,           \* the calls of the allocation scenario made so far
    synced,             \* PoolSpec: the configuration synchronized
    txn,                \* ConcSpec: per caller, the transaction in progress
    locks,              \* ConcSpec: row locks of ml2_gre_allocations
    vxlan_endpoints,    \* table N1kvVxlanEndpoint
    gre_endpoints,      \* table ml2_gre_endpoints
    network_profiles,   \* table NetworkProfile
    client,             \* RestClient: username, authentication
    requests,           \* the HTTP requests the RestClient has sent
    managed_objects,    \* MoSpec: the managed objects of the controller
    holders,            \* OwnerSpec: who received which id, not released
    earlier             \* RoundTripSpec: the call before the last one

vars == <<driver, vlan_allocations, vxlan_allocations, gre_allocations,
          gre_id_ranges, last, before, scenario, synced, txn, locks,
          vxlan_endpoints, gre_endpoints, network_profiles, client, requests,
          managed_objects, holders, earlier>>

----------------------------------------------------------------------------
(* Bounds of the model *)

MaxVlanId == 1
MaxVxlanId == 3
MaxGreId == 2
NumCallers == 2
MaxRequests == 3
MaxProfiles == 2

(* Program constants *)

MaxRangeSize == 1000000
FLAT_VLAN_ID == -1

VlanIds == 1..MaxVlanId
VxlanIds == 1..MaxVxlanId
GreIds == 1..MaxGreId
PhysNets == {"physnet1", "physnet2"}
Networks == {"net1", "net2"}
Callers == 1..NumCallers
None == "None"

(* Configured ranges: pairs (min, max).  A configuration is a list of     *)
(* disjoint ranges: none, one range, or the two end ids as two ranges.     *)
(* Tunnel configurations may hold a range wider than the ceiling, alone or *)
(* next to a valid range; VLAN tags stay within the VLAN id space.         *)
Ranges(ids) == {r \in ids \X ids : r[1] <= r[2]}
OversizedRange == <<2, MaxRangeSize + 2>>
Configs(ranges, max_id) ==
    {{}} \cup {{r} : r \in ranges} \cup {{<<1, 1>>, <<max_id, max_id>>}}
VlanRanges == Ranges(VlanIds)
VxlanRanges == Ranges(VxlanIds)
GreRanges == Ranges(GreIds)
VlanConfigs == Configs(VlanRanges, MaxVlanId)
VxlanConfigs == Configs(VxlanRanges \cup {OversizedRange}, MaxVxlanId)
                    \cup {{<<1, 1>>, OversizedRange}}
GreConfigs == Configs(GreRanges \cup {OversizedRange}, MaxGreId)
                    \cup {{<<1, 1>>, OversizedRange}}

----------------------------------------------------------------------------
(* The record of the last completed call *)

NoCall ==
    [op |-> "none", scope |-> "", id |-> 0, ranges |-> {}, net |-> "",
     status |-> "", ret |-> 0, ret_scope |-> "", resync |-> FALSE]

Call(op, scope, id, ranges, net, status, ret, ret_scope) ==
    [op |-> op, scope |-> scope, id |-> id, ranges |-> ranges, net |-> net,
     status |-> status, ret |-> ret, ret_scope |-> ret_scope,
     resync |-> FALSE]

IdleTxn == [pc |-> "idle"]

SyncOps == {"sync_vlan_allocations", "sync_vxlan_allocations",
            "initialize", "_sync_gre_allocations"}

(* The allocation scenario over the whole VXLAN id space: synchronize an   *)
(* empty store with the one range ScenarioRange, reserve dynamically once  *)
(* per id of the range and once more, release one id, reserve dynamically  *)
(* again.  ScenarioLen is the number of its calls.                         *)
ScenarioRange == <<1, MaxVxlanId>>
ScenarioLen == MaxVxlanId + 4

ScenarioEntry(call) ==
    [op |-> call.op, id |-> call.id, status |-> call.status, ret |-> call.ret]

(* the call is the one the scenario makes at position pos *)
ScenarioExpects(pos, call) ==
    IF pos = MaxVxlanId + 3
    THEN call.op = "release_vxlan"
    ELSE call.op = "reserve_vxlan" /\ call.ranges = {ScenarioRange}

(* the scenario so far, after a call: started by its synchronize, extended *)
(* by the call it makes next, abandoned by any other call                  *)
ScenarioStep(scen, call, rows) ==
    IF /\ call.op = "sync_vxlan_allocations"
       /\ call.ranges = {ScenarioRange}
       /\ rows = {}
    THEN <<ScenarioEntry(call)>>
    ELSE IF /\ scen # <<>>
            /\ Len(scen) < ScenarioLen
            /\ ScenarioExpects(Len(scen) + 1, call)
         THEN Append(scen, ScenarioEntry(call))
         ELSE <<>>

(* PoolSpec: the configuration the pool was synchronized with; no          *)
(* configuration elsewhere                                                 *)
NotSynced == [valid |-> FALSE, ranges |-> {}]

(* OwnerSpec: the (caller, scope, id) such that the caller received the id *)
(* of the scope from a reserve and has not released it since; not tracked  *)
(* elsewhere                                                               *)
NotTracked == [tracked |-> FALSE, held |-> {}]

(* RoundTripSpec: the call completed before the last one and the rows it   *)
(* started from; not tracked elsewhere                                     *)
NoEarlier == [tracked |-> FALSE, call |-> NoCall, rows |-> {}]

(* the holders after caller c has completed the call *)
HoldersStep(h, c, call) ==
    IF call.op \in {"reserve_specific_vlan", "reserve_specific_vxlan"}
          /\ call.status = "ok"
    THEN [h EXCEPT !.held = @ \cup {<<c, call.scope, call.id>>}]
    ELSE IF call.op \in {"reserve_vlan", "reserve_vxlan"}
               /\ call.status = "ok"
    THEN [h EXCEPT !.held = @ \cup {<<c, call.ret_scope, call.ret>>}]
    ELSE IF call.op \in {"release_vlan", "release_vxlan"}
    THEN [h EXCEPT !.held = @ \ {<<c, call.scope, call.id>>}]
    ELSE h

(* Book-keeping of a completed call: the call, the rows it started from,   *)
(* whether it is a synchronization that repeats the configuration of the   *)
(* synchronization completed just before it, and its place in the scenario.*)
Completes(call, rows) ==
    /\ UNCHANGED synced
    /\ \E c \in IF holders.tracked THEN Callers ELSE {1} :
          holders' = IF holders.tracked THEN HoldersStep(holders, c, call)
                     ELSE holders
    /\ earlier' = IF earlier.tracked
                  THEN [tracked |-> TRUE, call |-> last, rows |-> before]
                  ELSE earlier
    /\ last' = [call EXCEPT !.resync = /\ call.op \in SyncOps
                                       /\ last.op \in SyncOps
                                       /\ last.ranges = call.ranges]
    /\ before' = rows
    /\ scenario' = ScenarioStep(scenario, call, rows)

(* lo <= id <= hi for some configured range *)
InsideRanges(id, ranges) == \E r \in ranges : r[1] <= id /\ id <= r[2]

----------------------------------------------------------------------------
(* n1kv VXLAN *)

VxlanRows(tbl, vxlan_id) == {a \in tbl : a.vxlan_id = vxlan_id}

(* Variant of VxlanIdSet: the ids of a range up to, not including, its     *)
(* upper end.                                                              *)
VxlanIdSetExclusive(vxlan_id_ranges) ==
    UNION {IF r[2] + 1 - r[1] > MaxRangeSize THEN {} ELSE r[1]..(r[2] - 1)
           : r \in vxlan_id_ranges}

(* the id set built by sync_vxlan_allocations / delete_vxlan_allocations *)
VxlanIdSet(vxlan_id_ranges) ==
    UNION {IF r[2] + 1 - r[1] > MaxRangeSize THEN {} ELSE r[1]..r[2]
           : r \in vxlan_id_ranges}

SyncVxlanRows(tbl, vxlan_id_ranges) ==
    tbl \cup {[vxlan_id |-> i, allocated |-> FALSE]
              : i \in {j \in VxlanIdSet(vxlan_id_ranges)
                       : VxlanRows(tbl, j) = {}}}

(* Variant of DeleteVxlanRows: removes the records of the ranges whether   *)
(* allocated or not.                                                       *)
DeleteVxlanRowsAllocatedToo(tbl, vxlan_id_ranges) ==
    {a \in tbl : a.vxlan_id \notin VxlanIdSet(vxlan_id_ranges)}

DeleteVxlanRows(tbl, vxlan_id_ranges) ==
    {a \in tbl : ~(a.vxlan_id \in VxlanIdSet(vxlan_id_ranges)
                   /\ ~a.allocated)}

(* Variant of VxlanCandidates: the filter leaves out the bounds of the      *)
(* profile.                                                                *)
VxlanCandidatesUnbounded(tbl, seg_min, seg_max) ==
    {a \in tbl : a.allocated = FALSE}

(* rows the query of reserve_vxlan matches *)
VxlanCandidates(tbl, seg_min, seg_max) ==
    {a \in tbl : a.vxlan_id >= seg_min /\ a.vxlan_id <= seg_max
                 /\ a.allocated = FALSE}

(* Variant of SetVxlanAllocated: writes a second record for the id instead *)
(* of updating the one found.                                              *)
SetVxlanAllocatedAdding(tbl, vxlan_id, flag) ==
    tbl \cup {[vxlan_id |-> vxlan_id, allocated |-> flag]}

SetVxlanAllocated(tbl, vxlan_id, flag) ==
    {IF a.vxlan_id = vxlan_id THEN [a EXCEPT !.allocated = flag] ELSE a
     : a \in tbl}

(* the state outside the allocation tables *)
UnchangedRest(keep) ==
    /\ \/ "vxlan_endpoints" \in keep \/ UNCHANGED vxlan_endpoints
    /\ \/ "gre_endpoints" \in keep \/ UNCHANGED gre_endpoints
    /\ \/ "network_profiles" \in keep \/ UNCHANGED network_profiles
    /\ \/ "client" \in keep \/ UNCHANGED <<client, requests>>
    /\ \/ "managed_objects" \in keep \/ UNCHANGED managed_objects

RestInit ==
    /\ synced = NotSynced
    /\ holders = NotTracked
    /\ earlier = NoEarlier
    /\ managed_objects = {}
    /\ vxlan_endpoints = {}
    /\ gre_endpoints = {}
    /\ network_profiles = {}
    /\ client = [username |-> None, authentication |-> None]
    /\ requests = <<>>

UnchangedOthers(keep) ==
    /\ UnchangedRest(keep)
    /\ \/ "vlan" \in keep \/ UNCHANGED vlan_allocations
    /\ \/ "vxlan" \in keep \/ UNCHANGED vxlan_allocations
    /\ \/ "gre" \in keep \/ UNCHANGED <<gre_allocations, gre_id_ranges>>
    /\ UNCHANGED <<driver, txn, locks>>

sync_vxlan_allocations(vxlan_id_ranges) ==
    /\ driver = "vxlan"
    /\ vxlan_allocations' = SyncVxlanRows(vxlan_allocations, vxlan_id_ranges)
    /\ Completes(Call("sync_vxlan_allocations", "", 0, vxlan_id_ranges, "",
                    "ok", 0, ""),
                 vxlan_allocations)
    /\ UnchangedOthers({"vxlan"})

delete_vxlan_allocations(vxlan_id_ranges) ==
    /\ driver = "vxlan"
    /\ vxlan_allocations' = DeleteVxlanRows(vxlan_allocations,
                                            vxlan_id_ranges)
    /\ Completes(Call("delete_vxlan_allocations", "", 0, vxlan_id_ranges, "",
                    "ok", 0, ""),
                 vxlan_allocations)
    /\ UnchangedOthers({"vxlan"})

(* first() of an unordered query: any matching row *)
reserve_vxlan(seg_min, seg_max) ==
    /\ driver = "vxlan"
    /\ LET cand == VxlanCandidates(vxlan_allocations, seg_min, seg_max) IN
       \/ /\ cand # {}
          /\ \E alloc \in cand :
               /\ vxlan_allocations' =
                      SetVxlanAllocated(vxlan_allocations, alloc.vxlan_id,
                                        TRUE)
               /\ Completes(Call("reserve_vxlan", "", 0,
                               {<<seg_min, seg_max>>}, "", "ok",
                               alloc.vxlan_id, ""),
                            vxlan_allocations)
       \/ /\ cand = {}
          /\ UNCHANGED vxlan_allocations
          /\ Completes(Call("reserve_vxlan", "", 0, {<<seg_min, seg_max>>},
                          "", "NoNetworkAvailable", 0, ""),
                       vxlan_allocations)
    /\ UnchangedOthers({"vxlan"})

reserve_specific_vxlan(vxlan_id) ==
    /\ driver = "vxlan"
    /\ LET rows == VxlanRows(vxlan_allocations, vxlan_id) IN
       \/ /\ \E alloc \in rows : alloc.allocated
          /\ UNCHANGED vxlan_allocations
          /\ Completes(Call("reserve_specific_vxlan", "", vxlan_id, {}, "",
                          "VxlanIdInUse", 0, ""),
                       vxlan_allocations)
       \/ /\ \E alloc \in rows : ~alloc.allocated
          /\ vxlan_allocations' =
                 SetVxlanAllocated(vxlan_allocations, vxlan_id, TRUE)
          /\ Completes(Call("reserve_specific_vxlan", "", vxlan_id, {}, "",
                          "ok", vxlan_id, ""),
                       vxlan_allocations)
       \/ /\ rows = {}
          /\ vxlan_allocations' = vxlan_allocations \cup
                 {[vxlan_id |-> vxlan_id, allocated |-> TRUE]}
          /\ Completes(Call("reserve_specific_vxlan", "", vxlan_id, {}, "",
                          "ok", vxlan_id, ""),
                       vxlan_allocations)
    /\ UnchangedOthers({"vxlan"})

(* Variant of release_vxlan: removes the record instead of clearing its    *)
(* flag.                                                                   *)
release_vxlan_deleting(vxlan_id, vxlan_id_ranges) ==
    /\ driver = "vxlan"
    /\ vxlan_allocations' =
           vxlan_allocations \ VxlanRows(vxlan_allocations, vxlan_id)
    /\ Completes(Call("release_vxlan", "", vxlan_id, vxlan_id_ranges, "",
                       "ok", 0, ""),
                 vxlan_allocations)
    /\ UnchangedOthers({"vxlan"})

(* the flag inside only feeds the debug message *)
release_vxlan(vxlan_id, vxlan_id_ranges) ==
    /\ driver = "vxlan"
    /\ LET rows == VxlanRows(vxlan_allocations, vxlan_id) IN
       \/ /\ rows # {}
          /\ vxlan_allocations' =
                 SetVxlanAllocated(vxlan_allocations, vxlan_id, FALSE)
       \/ /\ rows = {}
          /\ UNCHANGED vxlan_allocations
    /\ Completes(Call("release_vxlan", "", vxlan_id, vxlan_id_ranges, "",
                    "ok", 0, ""),
                 vxlan_allocations)
    /\ UnchangedOthers({"vxlan"})

----------------------------------------------------------------------------
(* n1kv VLAN: network_vlan_ranges is a dict physical network -> ranges *)

VlanRangeMaps == {p :> c : p \in PhysNets, c \in VlanConfigs}

(* the dicts release_vlan is called with for a network: its ranges, or a  *)
(* dict without a range for it                                             *)
VlanRangeMapsFor(physical_network) ==
    {physical_network :> c : c \in VlanConfigs}
        \cup {p :> {} : p \in PhysNets \ {physical_network}}

VlanRows(tbl, physical_network, vlan_id) ==
    {a \in tbl : a.physical_network = physical_network
                 /\ a.vlan_id = vlan_id}

VlanIdSet(vlan_ranges) == UNION {r[1]..r[2] : r \in vlan_ranges}

(* the (physical network, vlan id) pairs the dict names *)
VlanKeySet(network_vlan_ranges) ==
    UNION {{p} \X VlanIdSet(network_vlan_ranges[p])
           : p \in DOMAIN network_vlan_ranges}

SyncVlanRows(tbl, network_vlan_ranges) ==
    tbl \cup {[physical_network |-> k[1], vlan_id |-> k[2],
               allocated |-> FALSE]
              : k \in {q \in VlanKeySet(network_vlan_ranges)
                       : VlanRows(tbl, q[1], q[2]) = {}}}

(* Variant of DeleteVlanRows: removes the ids of the ranges on every        *)
(* physical network.                                                       *)
DeleteVlanRowsAnyNetwork(tbl, network_vlan_ranges) ==
    {a \in tbl : ~(a.vlan_id \in {k[2] : k \in VlanKeySet(network_vlan_ranges)}
                   /\ ~a.allocated)}

DeleteVlanRows(tbl, network_vlan_ranges) ==
    {a \in tbl : ~(<<a.physical_network, a.vlan_id>>
                       \in VlanKeySet(network_vlan_ranges)
                   /\ ~a.allocated)}

(* rows the query of reserve_vlan matches: the filter names no network *)
VlanCandidates(tbl, seg_min, seg_max) ==
    {a \in tbl : a.vlan_id >= seg_min /\ a.vlan_id <= seg_max
                 /\ a.allocated = FALSE}

(* Variant of SetVlanAllocated: updates the records of the id on every     *)
(* physical network.                                                       *)
SetVlanAllocatedAnyNetwork(tbl, physical_network, vlan_id, flag) ==
    {IF a.vlan_id = vlan_id THEN [a EXCEPT !.allocated = flag] ELSE a
     : a \in tbl}

SetVlanAllocated(tbl, physical_network, vlan_id, flag) ==
    {IF a.physical_network = physical_network /\ a.vlan_id = vlan_id
     THEN [a EXCEPT !.allocated = flag] ELSE a
     : a \in tbl}

(* network_vlan_ranges.get(physical_network, []) *)
VlanRangesOf(network_vlan_ranges, physical_network) ==
    IF physical_network \in DOMAIN network_vlan_ranges
    THEN network_vlan_ranges[physical_network] ELSE {}

sync_vlan_allocations(network_vlan_ranges) ==
    /\ driver = "vlan"
    /\ vlan_allocations' = SyncVlanRows(vlan_allocations, network_vlan_ranges)
    /\ Completes(Call("sync_vlan_allocations", "", 0, network_vlan_ranges, "",
                    "ok", 0, ""),
                 vlan_allocations)
    /\ UnchangedOthers({"vlan"})

delete_vlan_allocations(network_vlan_ranges) ==
    /\ driver = "vlan"
    /\ vlan_allocations' = DeleteVlanRows(vlan_allocations,
                                          network_vlan_ranges)
    /\ Completes(Call("delete_vlan_allocations", "", 0, network_vlan_ranges,
                    "", "ok", 0, ""),
                 vlan_allocations)
    /\ UnchangedOthers({"vlan"})

(* profile: a network profile of physical_network with range seg_min-seg_max *)
reserve_vlan(physical_network, seg_min, seg_max) ==
    /\ driver = "vlan"
    /\ LET cand == VlanCandidates(vlan_allocations, seg_min, seg_max) IN
       \/ /\ cand # {}
          /\ \E alloc \in cand :
               /\ vlan_allocations' =
                      SetVlanAllocated(vlan_allocations,
                                       alloc.physical_network,
                                       alloc.vlan_id, TRUE)
               /\ Completes(Call("reserve_vlan", physical_network, 0,
                               {<<seg_min, seg_max>>}, "", "ok",
                               alloc.vlan_id, alloc.physical_network),
                            vlan_allocations)
       \/ /\ cand = {}
          /\ UNCHANGED vlan_allocations
          /\ Completes(Call("reserve_vlan", physical_network, 0,
                          {<<seg_min, seg_max>>}, "", "NoNetworkAvailable",
                          0, ""),
                       vlan_allocations)
    /\ UnchangedOthers({"vlan"})

reserve_specific_vlan(physical_network, vlan_id) ==
    /\ driver = "vlan"
    /\ LET rows == VlanRows(vlan_allocations, physical_network, vlan_id) IN
       \/ /\ \E alloc \in rows : alloc.allocated
          /\ UNCHANGED vlan_allocations
          /\ Completes(Call("reserve_specific_vlan", physical_network,
                          vlan_id, {}, "",
                          IF vlan_id = FLAT_VLAN_ID THEN "FlatNetworkInUse"
                                                    ELSE "VlanIdInUse",
                          0, ""),
                       vlan_allocations)
       \/ /\ \E alloc \in rows : ~alloc.allocated
          /\ vlan_allocations' =
                 SetVlanAllocated(vlan_allocations, physical_network,
                                  vlan_id, TRUE)
          /\ Completes(Call("reserve_specific_vlan", physical_network,
                          vlan_id, {}, "", "ok", vlan_id, physical_network),
                       vlan_allocations)
       \/ /\ rows = {}
          /\ vlan_allocations' = vlan_allocations \cup
                 {[physical_network |-> physical_network,
                   vlan_id |-> vlan_id, allocated |-> TRUE]}
          /\ Completes(Call("reserve_specific_vlan", physical_network,
                          vlan_id, {}, "", "ok", vlan_id, physical_network),
                       vlan_allocations)
    /\ UnchangedOthers({"vlan"})

(* the flag inside only feeds the debug message *)
release_vlan(physical_network, vlan_id, network_vlan_ranges) ==
    /\ driver = "vlan"
    /\ LET rows == VlanRows(vlan_allocations, physical_network, vlan_id) IN
       \/ /\ rows # {}
          /\ vlan_allocations' =
                 SetVlanAllocated(vlan_allocations, physical_network,
                                  vlan_id, FALSE)
       \/ /\ rows = {}
          /\ UNCHANGED vlan_allocations
    /\ Completes(Call("release_vlan", physical_network, vlan_id,
                    network_vlan_ranges, "", "ok", 0, ""),
                 vlan_allocations)
    /\ UnchangedOthers({"vlan"})

----------------------------------------------------------------------------
(* ML2 GRE type driver *)

GreRows(tbl, gre_id) == {a \in tbl : a.gre_id = gre_id}

GreRowsOfNetwork(tbl, network_id) == {a \in tbl : a.network_id = network_id}

(* Variant of GreAllocation: the allocated argument is dropped, the column *)
(* default stays.                                                          *)
GreAllocationUnallocated(gre_id, allocated, network_id, provider_network) ==
    [gre_id |-> gre_id, allocated |-> FALSE, network_id |-> network_id,
     provider_network |-> provider_network]

(* GreAllocation(gre_id=...): the column defaults fill the other fields *)
GreAllocation(gre_id, allocated, network_id, provider_network) ==
    [gre_id |-> gre_id, allocated |-> allocated, network_id |-> network_id,
     provider_network |-> provider_network]

GreIdSet(ranges) ==
    UNION {IF r[2] + 1 - r[1] > MaxRangeSize THEN {} ELSE r[1]..r[2]
           : r \in ranges}

(* Variant of SyncGreRows: writes a fresh unallocated record for every     *)
(* in-range id, over the record the id already has.                        *)
SyncGreRowsOverwriting(tbl, ranges) ==
    LET gre_ids == GreIdSet(ranges)
        kept == {a \in tbl : a.gre_id \notin gre_ids /\ a.allocated}
    IN  kept \cup {GreAllocation(i, FALSE, None, FALSE) : i \in gre_ids}

(* Variant of SyncGreRows: removes no record.                              *)
SyncGreRowsNoPurge(tbl, ranges) ==
    LET gre_ids == GreIdSet(ranges)
        missing == {i \in gre_ids : GreRows(tbl, i) = {}}
    IN  tbl \cup {GreAllocation(i, FALSE, None, FALSE) : i \in missing}

(* Variant of SyncGreRows: removes every unallocated record it meets, in   *)
(* range or not.                                                           *)
SyncGreRowsPurgingInRange(tbl, ranges) ==
    LET gre_ids == GreIdSet(ranges)
        kept == {a \in tbl : a.allocated}
        missing == {i \in gre_ids : GreRows(tbl, i) = {}}
    IN  kept \cup {GreAllocation(i, FALSE, None, FALSE) : i \in missing}

SyncGreRows(tbl, ranges) ==
    LET gre_ids == GreIdSet(ranges)
        kept == {a \in tbl : a.gre_id \in gre_ids \/ a.allocated}
        missing == {i \in gre_ids : GreRows(tbl, i) = {}}
    IN  kept \cup {GreAllocation(i, FALSE, None, FALSE) : i \in missing}

GreCandidates(tbl) == {a \in tbl : a.allocated = FALSE}

_sync_gre_allocations ==
    /\ driver = "gre"
    /\ gre_allocations' = SyncGreRows(gre_allocations, gre_id_ranges)
    /\ UNCHANGED gre_id_ranges
    /\ Completes(Call("_sync_gre_allocations", "", 0, gre_id_ranges, "",
                    "ok", 0, ""),
                 gre_allocations)
    /\ UnchangedOthers({"gre"})

(* tunnel_id_ranges: the parsed option ml2_type_gre.tunnel_id_ranges *)
initialize(tunnel_id_ranges) ==
    /\ driver = "gre"
    /\ gre_id_ranges' = tunnel_id_ranges
    /\ gre_allocations' = SyncGreRows(gre_allocations, tunnel_id_ranges)
    /\ Completes(Call("initialize", "", 0, tunnel_id_ranges, "", "ok", 0, ""),
                 gre_allocations)
    /\ UnchangedOthers({"gre"})

(* Variant of reserve_provider_segment: takes the id for the network       *)
(* whatever the state of its record.                                       *)
reserve_provider_segment_reassigning(network_id, segmentation_id) ==
    /\ driver = "gre"
    /\ UNCHANGED gre_id_ranges
    /\ gre_allocations' =
           (gre_allocations \ GreRows(gre_allocations, segmentation_id))
               \cup {GreAllocation(segmentation_id, TRUE, network_id, TRUE)}
    /\ Completes(Call("reserve_provider_segment", "", segmentation_id, {},
                    network_id, "ok", segmentation_id, ""),
                 gre_allocations)
    /\ UnchangedOthers({"gre"})

reserve_provider_segment(network_id, segmentation_id) ==
    /\ driver = "gre"
    /\ UNCHANGED gre_id_ranges
    /\ LET rows == GreRows(gre_allocations, segmentation_id) IN
       \/ /\ \E alloc \in rows : alloc.allocated
          /\ UNCHANGED gre_allocations
          /\ Completes(Call("reserve_provider_segment", "", segmentation_id,
                          {}, network_id, "TunnelIdInUse", 0, ""),
                       gre_allocations)
       \/ /\ \E alloc \in rows :
               /\ ~alloc.allocated
               /\ gre_allocations' = (gre_allocations \ {alloc}) \cup
                      {GreAllocation(alloc.gre_id, TRUE, network_id, TRUE)}
               /\ Completes(Call("reserve_provider_segment", "",
                               segmentation_id, {}, network_id, "ok",
                               alloc.gre_id, ""),
                            gre_allocations)
       \/ /\ rows = {}
          /\ gre_allocations' = gre_allocations \cup
                 {GreAllocation(segmentation_id, TRUE, None, TRUE)}
          /\ Completes(Call("reserve_provider_segment", "", segmentation_id,
                          {}, network_id, "ok", segmentation_id, ""),
                       gre_allocations)
    /\ UnchangedOthers({"gre"})

(* Variant of allocate_tenant_segment: marks every unallocated record, not *)
(* only the one it returns.                                                *)
allocate_tenant_segment_marking_all(network_id) ==
    /\ driver = "gre"
    /\ UNCHANGED gre_id_ranges
    /\ LET cand == GreCandidates(gre_allocations) IN
       \/ /\ cand # {}
          /\ \E alloc \in cand :
               /\ gre_allocations' = (gre_allocations \ cand) \cup
                      {[a EXCEPT !.allocated = TRUE,
                                 !.network_id = network_id] : a \in cand}
               /\ Completes(Call("allocate_tenant_segment", "", 0, {},
                               network_id, "ok", alloc.gre_id, ""),
                            gre_allocations)
       \/ /\ cand = {}
          /\ UNCHANGED gre_allocations
          /\ Completes(Call("allocate_tenant_segment", "", 0, {}, network_id,
                          "ok", 0, ""),
                       gre_allocations)
    /\ UnchangedOthers({"gre"})

(* first() of an unordered query: any unallocated row; with no such row    *)
(* the function falls off its end and returns None (ret = 0)               *)
allocate_tenant_segment(network_id) ==
    /\ driver = "gre"
    /\ UNCHANGED gre_id_ranges
    /\ LET cand == GreCandidates(gre_allocations) IN
       \/ /\ cand # {}
          /\ \E alloc \in cand :
               /\ gre_allocations' = (gre_allocations \ {alloc}) \cup
                      {[alloc EXCEPT !.allocated = TRUE,
                                     !.network_id = network_id]}
               /\ Completes(Call("allocate_tenant_segment", "", 0, {},
                               network_id, "ok", alloc.gre_id, ""),
                            gre_allocations)
       \/ /\ cand = {}
          /\ UNCHANGED gre_allocations
          /\ Completes(Call("allocate_tenant_segment", "", 0, {}, network_id,
                          "ok", 0, ""),
                       gre_allocations)
    /\ UnchangedOthers({"gre"})

(* Variant of release_static_segment: deletes the record it releases       *)
(* whether its id is inside a configured range or not.                     *)
release_static_segment_deleting(network_id) ==
    /\ driver = "gre"
    /\ UNCHANGED gre_id_ranges
    /\ LET rows == GreRowsOfNetwork(gre_allocations, network_id) IN
       /\ gre_allocations' = gre_allocations \ rows
       /\ Completes(Call("release_static_segment", "",
                        IF rows = {} THEN 0 ELSE (CHOOSE a \in rows : TRUE).gre_id,
                        gre_id_ranges, network_id,
                        IF rows = {} THEN "UnboundLocalError" ELSE "ok",
                        0, ""),
                    gre_allocations)
    /\ UnchangedOthers({"gre"})

(* one(): NoResultFound without a row, MultipleResultsFound with several.  *)
(* The NoResultFound handler reads gre_id, which is bound only after one() *)
(* returned: it raises UnboundLocalError.                                  *)
release_static_segment(network_id) ==
    /\ driver = "gre"
    /\ UNCHANGED gre_id_ranges
    /\ LET rows == GreRowsOfNetwork(gre_allocations, network_id) IN
       \/ /\ rows = {}
          /\ UNCHANGED gre_allocations
          /\ Completes(Call("release_static_segment", "", 0, gre_id_ranges,
                          network_id, "UnboundLocalError", 0, ""),
                       gre_allocations)
       \/ /\ Cardinality(rows) > 1
          /\ UNCHANGED gre_allocations
          /\ Completes(Call("release_static_segment", "", 0, gre_id_ranges,
                          network_id, "MultipleResultsFound", 0, ""),
                       gre_allocations)
       \/ /\ Cardinality(rows) = 1
          /\ \E alloc \in rows :
               /\ gre_allocations' =
                      IF InsideRanges(alloc.gre_id, gre_id_ranges)
                      THEN (gre_allocations \ {alloc}) \cup
                               {[alloc EXCEPT !.allocated = FALSE]}
                      ELSE gre_allocations \ {alloc}
               /\ Completes(Call("release_static_segment", "", alloc.gre_id,
                               gre_id_ranges, network_id, "ok", 0, ""),
                            gre_allocations)
    /\ UnchangedOthers({"gre"})

----------------------------------------------------------------------------
(* A synchronization that meets a store error.  Each synchronizer runs    *)
(* inside one with session.begin() block; an exception raised inside the   *)
(* block (by a query, or by the INSERTs and DELETEs of a flush) leaves the *)
(* block through the rollback of that transaction, and the caller sees the *)
(* error.  What the loop had written before the error is discarded.        *)

SyncErrorOps == {"sync_vlan_allocations_store_error",
                 "sync_vxlan_allocations_store_error",
                 "_sync_gre_allocations_store_error"}

(* the dicts of sync_vlan_allocations naming one physical network, or     *)
(* every physical network with the same ranges                             *)
VlanRangeDicts ==
    VlanRangeMaps \cup {[p \in PhysNets |-> c] : c \in VlanConfigs}

(* the call record of a failed synchronization: failed_at in scope, and    *)
(* the scopes whose processing the loop had finished before                *)
SyncError(op, ranges, failed_at, completed) ==
    [completed |-> completed]
        @@ Call(op, failed_at, 0, ranges, "", "DBError", 0, "")

(* the table after the rollback of a transaction that had brought it, in   *)
(* part or in whole, to the rows written                                   *)
RolledBack(tbl, written) == tbl

(* sync_vlan_allocations: the error is raised while the loop processes     *)
(* failed_at, on one of the queries it makes per id; the loop follows the  *)
(* order of the dict, completed are the physical networks it had processed *)
(* before                                                                  *)
sync_vlan_allocations_store_error(network_vlan_ranges, failed_at, completed) ==
    /\ driver = "vlan"
    /\ failed_at \in DOMAIN network_vlan_ranges
    /\ network_vlan_ranges[failed_at] # {}
    /\ completed \subseteq DOMAIN network_vlan_ranges \ {failed_at}
    /\ vlan_allocations' =
           RolledBack(vlan_allocations,
                      SyncVlanRows(vlan_allocations,
                                   [p \in completed |->
                                       network_vlan_ranges[p]]))
    /\ Completes(SyncError("sync_vlan_allocations_store_error",
                          network_vlan_ranges, failed_at, completed),
                 vlan_allocations)
    /\ UnchangedOthers({"vlan"})

sync_vxlan_allocations_store_error(vxlan_id_ranges) ==
    /\ driver = "vxlan"
    /\ vxlan_allocations' =
           RolledBack(vxlan_allocations,
                      SyncVxlanRows(vxlan_allocations, vxlan_id_ranges))
    /\ Completes(SyncError("sync_vxlan_allocations_store_error",
                          vxlan_id_ranges, "", {}),
                 vxlan_allocations)
    /\ UnchangedOthers({"vxlan"})

_sync_gre_allocations_store_error ==
    /\ driver = "gre"
    /\ gre_allocations' =
           RolledBack(gre_allocations,
                      SyncGreRows(gre_allocations, gre_id_ranges))
    /\ UNCHANGED gre_id_ranges
    /\ Completes(SyncError("_sync_gre_allocations_store_error",
                          gre_id_ranges, "", {}),
                 gre_allocations)
    /\ UnchangedOthers({"gre"})

----------------------------------------------------------------------------
Init ==
    /\ driver \in {"vlan", "vxlan", "gre"}
    /\ vlan_allocations = {}
    /\ vxlan_allocations = {}
    /\ gre_allocations = {}
    /\ gre_id_ranges = {}
    /\ last = NoCall
    /\ before = {}
    /\ scenario = <<>>
    /\ txn = [c \in Callers |-> IdleTxn]
    /\ locks = {}
    /\ RestInit

Next ==
    \/ \E m \in VlanRangeMaps : sync_vlan_allocations(m)
    \/ \E m \in VlanRangeMaps : delete_vlan_allocations(m)
    \/ \E p \in PhysNets, r \in VlanRanges : reserve_vlan(p, r[1], r[2])
    \/ \E p \in PhysNets, i \in VlanIds : reserve_specific_vlan(p, i)
    \/ \E p \in PhysNets, i \in VlanIds :
          \E m \in VlanRangeMapsFor(p) : release_vlan(p, i, m)
    \/ \E c \in GreConfigs : initialize(c)
    \/ _sync_gre_allocations
    \/ \E n \in Networks, i \in GreIds : reserve_provider_segment(n, i)
    \/ \E n \in Networks : allocate_tenant_segment(n)
    \/ \E n \in Networks : release_static_segment(n)
    \/ \E c \in VxlanConfigs : sync_vxlan_allocations(c)
    \/ \E c \in VxlanConfigs : delete_vxlan_allocations(c)
    \/ \E r \in VxlanRanges : reserve_vxlan(r[1], r[2])
    \/ \E i \in VxlanIds : reserve_specific_vxlan(i)
    \/ \E i \in VxlanIds, c \in VxlanConfigs : release_vxlan(i, c)
    \/ \E m \in VlanRangeDicts :
          \E p \in DOMAIN m, done \in SUBSET DOMAIN m :
              sync_vlan_allocations_store_error(m, p, done)
    \/ \E c \in VxlanConfigs : sync_vxlan_allocations_store_error(c)
    \/ _sync_gre_allocations_store_error

Spec == Init /\ [][Next]_vars

----------------------------------------------------------------------------
(* Concurrent callers.  A transaction is the query of the handler (a plain *)
(* SELECT for n1kv, SELECT ... FOR UPDATE for GRE) followed by the flush   *)
(* and commit at the end of the with block.  A locking read waits while    *)
(* another transaction holds the row; the lock is released at commit or    *)
(* rollback.  A plain read takes no lock; the UPDATE of the flush writes   *)
(* the row whatever its state then is, an INSERT of a key that exists      *)
(* fails (IntegrityError), an UPDATE of a row that is gone fails           *)
(* (StaleDataError).                                                       *)

Txn(pc, op, scope, id, net, seen, status, ret, ret_scope) ==
    [pc |-> pc, op |-> op, scope |-> scope, id |-> id, net |-> net,
     seen |-> seen, status |-> status, ret |-> ret, ret_scope |-> ret_scope]

LockedByOther(c, gre_id) == \E l \in locks : l[1] = gre_id /\ l[2] # c

Unlock(c) == {l \in locks : l[2] # c}

ConcUnchanged(keep) ==
    /\ UnchangedRest(keep)
    /\ \/ "vlan" \in keep \/ UNCHANGED vlan_allocations
    /\ \/ "vxlan" \in keep \/ UNCHANGED vxlan_allocations
    /\ \/ "gre" \in keep \/ UNCHANGED gre_allocations
    /\ \/ "locks" \in keep \/ UNCHANGED locks
    /\ UNCHANGED <<driver, gre_id_ranges, last, before, scenario, synced,
                   holders, earlier>>

(* n1kv reserve_specific_vxlan: the query *)
reserve_specific_vxlan_query(c, vxlan_id) ==
    /\ driver = "vxlan"
    /\ txn[c].pc = "idle"
    /\ LET rows == VxlanRows(vxlan_allocations, vxlan_id) IN
       txn' = [txn EXCEPT ![c] =
           IF \E alloc \in rows : alloc.allocated
           THEN Txn("done", "reserve_specific_vxlan", "", vxlan_id, "",
                    "allocated", "VxlanIdInUse", 0, "")
           ELSE Txn("flush", "reserve_specific_vxlan", "", vxlan_id, "",
                    IF rows = {} THEN "absent" ELSE "free", "", 0, "")]
    /\ ConcUnchanged({})

(* n1kv reserve_specific_vxlan: flush and commit *)
reserve_specific_vxlan_commit(c) ==
    /\ txn[c].pc = "flush"
    /\ txn[c].op = "reserve_specific_vxlan"
    /\ LET vxlan_id == txn[c].id
           rows == VxlanRows(vxlan_allocations, vxlan_id)
           status == IF txn[c].seen = "free"
                     THEN IF rows = {} THEN "StaleDataError" ELSE "ok"
                     ELSE IF rows = {} THEN "ok" ELSE "IntegrityError"
       IN
       /\ vxlan_allocations' =
              IF status # "ok" THEN vxlan_allocations
              ELSE IF txn[c].seen = "free"
              THEN SetVxlanAllocated(vxlan_allocations, vxlan_id, TRUE)
              ELSE vxlan_allocations \cup
                       {[vxlan_id |-> vxlan_id, allocated |-> TRUE]}
       /\ txn' = [txn EXCEPT ![c] =
              [@ EXCEPT !.pc = "done", !.status = status,
                        !.ret = IF status = "ok" THEN vxlan_id ELSE 0]]
    /\ ConcUnchanged({"vxlan"})

(* n1kv reserve_vxlan: the query *)
reserve_vxlan_query(c, seg_min, seg_max) ==
    /\ driver = "vxlan"
    /\ txn[c].pc = "idle"
    /\ LET cand == VxlanCandidates(vxlan_allocations, seg_min, seg_max) IN
       \/ /\ cand = {}
          /\ txn' = [txn EXCEPT ![c] =
                 Txn("done", "reserve_vxlan", "", 0, "", "none",
                     "NoNetworkAvailable", 0, "")]
       \/ \E alloc \in cand :
            txn' = [txn EXCEPT ![c] =
                Txn("flush", "reserve_vxlan", "", alloc.vxlan_id, "",
                    "free", "", 0, "")]
    /\ ConcUnchanged({})

(* n1kv reserve_vxlan: flush and commit *)
reserve_vxlan_commit(c) ==
    /\ txn[c].pc = "flush"
    /\ txn[c].op = "reserve_vxlan"
    /\ LET vxlan_id == txn[c].id
           rows == VxlanRows(vxlan_allocations, vxlan_id)
           status == IF rows = {} THEN "StaleDataError" ELSE "ok"
       IN
       /\ vxlan_allocations' =
              IF status # "ok" THEN vxlan_allocations
              ELSE SetVxlanAllocated(vxlan_allocations, vxlan_id, TRUE)
       /\ txn' = [txn EXCEPT ![c] =
              [@ EXCEPT !.pc = "done", !.status = status,
                        !.ret = IF status = "ok" THEN vxlan_id ELSE 0]]
    /\ ConcUnchanged({"vxlan"})

(* n1kv reserve_specific_vlan: the query *)
reserve_specific_vlan_query(c, physical_network, vlan_id) ==
    /\ driver = "vlan"
    /\ txn[c].pc = "idle"
    /\ LET rows == VlanRows(vlan_allocations, physical_network, vlan_id) IN
       txn' = [txn EXCEPT ![c] =
           IF \E alloc \in rows : alloc.allocated
           THEN Txn("done", "reserve_specific_vlan", physical_network,
                    vlan_id, "", "allocated",
                    IF vlan_id = FLAT_VLAN_ID THEN "FlatNetworkInUse"
                                              ELSE "VlanIdInUse", 0, "")
           ELSE Txn("flush", "reserve_specific_vlan", physical_network,
                    vlan_id, "", IF rows = {} THEN "absent" ELSE "free",
                    "", 0, "")]
    /\ ConcUnchanged({})

(* n1kv reserve_specific_vlan: flush and commit *)
reserve_specific_vlan_commit(c) ==
    /\ txn[c].pc = "flush"
    /\ txn[c].op = "reserve_specific_vlan"
    /\ LET physical_network == txn[c].scope
           vlan_id == txn[c].id
           rows == VlanRows(vlan_allocations, physical_network, vlan_id)
           status == IF txn[c].seen = "free"
                     THEN IF rows = {} THEN "StaleDataError" ELSE "ok"
                     ELSE IF rows = {} THEN "ok" ELSE "IntegrityError"
       IN
       /\ vlan_allocations' =
              IF status # "ok" THEN vlan_allocations
              ELSE IF txn[c].seen = "free"
              THEN SetVlanAllocated(vlan_allocations, physical_network,
                                    vlan_id, TRUE)
              ELSE vlan_allocations \cup
                       {[physical_network |-> physical_network,
                         vlan_id |-> vlan_id, allocated |-> TRUE]}
       /\ txn' = [txn EXCEPT ![c] =
              [@ EXCEPT !.pc = "done", !.status = status,
                        !.ret = IF status = "ok" THEN vlan_id ELSE 0,
                        !.ret_scope = IF status = "ok" THEN physical_network
                                      ELSE ""]]
    /\ ConcUnchanged({"vlan"})

(* n1kv reserve_vlan: the query; scope and id are those of the row found *)
reserve_vlan_query(c, seg_min, seg_max) ==
    /\ driver = "vlan"
    /\ txn[c].pc = "idle"
    /\ LET cand == VlanCandidates(vlan_allocations, seg_min, seg_max) IN
       \/ /\ cand = {}
          /\ txn' = [txn EXCEPT ![c] =
                 Txn("done", "reserve_vlan", "", 0, "", "none",
                     "NoNetworkAvailable", 0, "")]
       \/ \E alloc \in cand :
            txn' = [txn EXCEPT ![c] =
                Txn("flush", "reserve_vlan", alloc.physical_network,
                    alloc.vlan_id, "", "free", "", 0, "")]
    /\ ConcUnchanged({})

(* n1kv reserve_vlan: flush and commit *)
reserve_vlan_commit(c) ==
    /\ txn[c].pc = "flush"
    /\ txn[c].op = "reserve_vlan"
    /\ LET physical_network == txn[c].scope
           vlan_id == txn[c].id
           rows == VlanRows(vlan_allocations, physical_network, vlan_id)
           status == IF rows = {} THEN "StaleDataError" ELSE "ok"
       IN
       /\ vlan_allocations' =
              IF status # "ok" THEN vlan_allocations
              ELSE SetVlanAllocated(vlan_allocations, physical_network,
                                    vlan_id, TRUE)
       /\ txn' = [txn EXCEPT ![c] =
              [@ EXCEPT !.pc = "done", !.status = status,
                        !.ret = IF status = "ok" THEN vlan_id ELSE 0,
                        !.ret_scope = IF status = "ok" THEN physical_network
                                      ELSE ""]]
    /\ ConcUnchanged({"vlan"})

(* GRE reserve_provider_segment: the locking query *)
reserve_provider_segment_query(c, network_id, segmentation_id) ==
    /\ driver = "gre"
    /\ txn[c].pc = "idle"
    /\ ~LockedByOther(c, segmentation_id)
    /\ LET rows == GreRows(gre_allocations, segmentation_id) IN
       \/ /\ \E alloc \in rows : alloc.allocated
          /\ txn' = [txn EXCEPT ![c] =
                 Txn("done", "reserve_provider_segment", "",
                     segmentation_id, network_id, "allocated",
                     "TunnelIdInUse", 0, "")]
          /\ UNCHANGED locks
       \/ /\ \E alloc \in rows : ~alloc.allocated
          /\ txn' = [txn EXCEPT ![c] =
                 Txn("flush", "reserve_provider_segment", "",
                     segmentation_id, network_id, "free", "", 0, "")]
          /\ locks' = locks \cup {<<segmentation_id, c>>}
       \/ /\ rows = {}
          /\ txn' = [txn EXCEPT ![c] =
                 Txn("flush", "reserve_provider_segment", "",
                     segmentation_id, network_id, "absent", "", 0, "")]
          /\ UNCHANGED locks
    /\ ConcUnchanged({"locks"})

(* GRE reserve_provider_segment: flush and commit *)
reserve_provider_segment_commit(c) ==
    /\ txn[c].pc = "flush"
    /\ txn[c].op = "reserve_provider_segment"
    /\ LET gre_id == txn[c].id
           rows == GreRows(gre_allocations, gre_id)
           status == IF txn[c].seen = "free"
                     THEN IF rows = {} THEN "StaleDataError" ELSE "ok"
                     ELSE IF rows = {} THEN "ok" ELSE "IntegrityError"
       IN
       /\ gre_allocations' =
              IF status # "ok" THEN gre_allocations
              ELSE IF txn[c].seen = "free"
              THEN (gre_allocations \ rows) \cup
                       {GreAllocation(gre_id, TRUE, txn[c].net, TRUE)}
              ELSE gre_allocations \cup
                       {GreAllocation(gre_id, TRUE, None, TRUE)}
       /\ txn' = [txn EXCEPT ![c] =
              [@ EXCEPT !.pc = "done", !.status = status,
                        !.ret = IF status = "ok" THEN gre_id ELSE 0]]
       /\ locks' = Unlock(c)
    /\ ConcUnchanged({"gre", "locks"})

(* GRE allocate_tenant_segment: the locking query.  The scan waits on a    *)
(* locked row and skips it once its holder has committed it allocated.     *)
allocate_tenant_segment_query(c, network_id) ==
    /\ driver = "gre"
    /\ txn[c].pc = "idle"
    /\ LET cand == GreCandidates(gre_allocations) IN
       \/ /\ cand = {}
          /\ txn' = [txn EXCEPT ![c] =
                 Txn("done", "allocate_tenant_segment", "", 0, network_id,
                     "none", "ok", 0, "")]
          /\ UNCHANGED locks
       \/ \E alloc \in cand :
            /\ ~LockedByOther(c, alloc.gre_id)
            /\ txn' = [txn EXCEPT ![c] =
                   Txn("flush", "allocate_tenant_segment", "", alloc.gre_id,
                       network_id, "free", "", 0, "")]
            /\ locks' = locks \cup {<<alloc.gre_id, c>>}
    /\ ConcUnchanged({"locks"})

(* GRE allocate_tenant_segment: flush and commit *)
allocate_tenant_segment_commit(c) ==
    /\ txn[c].pc = "flush"
    /\ txn[c].op = "allocate_tenant_segment"
    /\ LET gre_id == txn[c].id
           rows == GreRows(gre_allocations, gre_id)
           status == IF rows = {} THEN "StaleDataError" ELSE "ok"
       IN
       /\ gre_allocations' =
              IF status # "ok" THEN gre_allocations
              ELSE {IF a \in rows
                    THEN [a EXCEPT !.allocated = TRUE,
                                   !.network_id = txn[c].net]
                    ELSE a : a \in gre_allocations}
       /\ txn' = [txn EXCEPT ![c] =
              [@ EXCEPT !.pc = "done", !.status = status,
                        !.ret = IF status = "ok" THEN gre_id ELSE 0]]
       /\ locks' = Unlock(c)
    /\ ConcUnchanged({"gre", "locks"})

(* GRE allocate_static_segment with several provider segments: the loop    *)
(* calls reserve_provider_segment once per segment on the session of the   *)
(* caller.  begin(subtransactions=True) joins the transaction the caller   *)
(* has open on that session (nested), and then the row locks and the       *)
(* writes of every segment stay with that transaction until the caller     *)
(* commits; without one, each segment commits at the end of its own block. *)
SegmentLists == {<<i, j>> : i, j \in GreIds} \ {<<i, i>> : i \in GreIds}

StaticTxn(net, todo, nested, written) ==
    [todo |-> todo, nested |-> nested]
        @@ Txn("static", "allocate_static_segment", "", 0, net, written,
               "", 0, "")

(* the rows of tbl once the reservations of the ids written are applied *)
StaticRows(tbl, written, network_id) ==
    {a \in tbl : a.gre_id \notin written}
        \cup {IF GreRows(tbl, i) # {}
              THEN GreAllocation(i, TRUE, network_id, TRUE)
              ELSE GreAllocation(i, TRUE, None, TRUE) : i \in written}

allocate_static_segment_begin(c, net_id, segments, nested) ==
    /\ driver = "gre"
    /\ txn[c].pc = "idle"
    /\ txn' = [txn EXCEPT ![c] = StaticTxn(net_id, segments, nested, {})]
    /\ ConcUnchanged({})

(* one pass of the loop: reserve_provider_segment of the next segment, its *)
(* locking query and the flush at the end of its block.  The query waits   *)
(* while another transaction holds the row, and locks the row it finds.    *)
(* TunnelIdInUse leaves the loop and rolls the transaction of the caller   *)
(* back.                                                                   *)
allocate_static_segment_reserve(c) ==
    /\ txn[c].pc = "static"
    /\ txn[c].todo # <<>>
    /\ LET gre_id == Head(txn[c].todo)
           rows == GreRows(gre_allocations, gre_id)
           written == txn[c].seen \cup {gre_id}
       IN
       /\ ~LockedByOther(c, gre_id)
       /\ \/ /\ \/ \E alloc \in rows : alloc.allocated
                \/ gre_id \in txn[c].seen
             /\ txn' = [txn EXCEPT ![c] =
                    [@ EXCEPT !.pc = "done", !.status = "TunnelIdInUse",
                              !.id = gre_id]]
             /\ locks' = Unlock(c)
             /\ UNCHANGED gre_allocations
          \/ /\ \A alloc \in rows : ~alloc.allocated
             /\ gre_id \notin txn[c].seen
             /\ txn' = [txn EXCEPT ![c] =
                    [@ EXCEPT !.todo = Tail(@), !.seen = written]]
             /\ IF txn[c].nested
                THEN /\ locks' = IF rows = {} THEN locks
                                 ELSE locks \cup {<<gre_id, c>>}
                     /\ UNCHANGED gre_allocations
                ELSE /\ gre_allocations' =
                            StaticRows(gre_allocations, {gre_id}, txn[c].net)
                     /\ UNCHANGED locks
    /\ ConcUnchanged({"gre", "locks"})

(* the loop is over: the transaction of the caller commits.  The records  *)
(* it found are locked; a record it created for an id that has a record by *)
(* now fails the INSERT (IntegrityError) and the transaction rolls back.   *)
allocate_static_segment_commit(c) ==
    /\ txn[c].pc = "static"
    /\ txn[c].todo = <<>>
    /\ LET created == {i \in txn[c].seen : <<i, c>> \notin locks}
           status == IF /\ txn[c].nested
                        /\ \E i \in created : GreRows(gre_allocations, i) # {}
                     THEN "IntegrityError" ELSE "ok"
       IN
       /\ gre_allocations' =
              IF txn[c].nested /\ status = "ok"
              THEN StaticRows(gre_allocations, txn[c].seen, txn[c].net)
              ELSE gre_allocations
       /\ txn' = [txn EXCEPT ![c] =
              [@ EXCEPT !.pc = "done", !.status = status]]
    /\ locks' = Unlock(c)
    /\ ConcUnchanged({"gre", "locks"})

(* The table the callers start from: a freshly synchronized one *)
ConcInit ==
    /\ driver \in {"vlan", "vxlan", "gre"}
    /\ \E c \in VlanConfigs :
         vlan_allocations =
             IF driver = "vlan"
             THEN SyncVlanRows({}, [p \in PhysNets |-> c]) ELSE {}
    /\ \E c \in VxlanConfigs :
         vxlan_allocations =
             IF driver = "vxlan" THEN SyncVxlanRows({}, c) ELSE {}
    /\ \E c \in GreConfigs :
         /\ gre_id_ranges = (IF driver = "gre" THEN c ELSE {})
         /\ gre_allocations =
                IF driver = "gre" THEN SyncGreRows({}, c) ELSE {}
    /\ last = NoCall
    /\ before = {}
    /\ scenario = <<>>
    /\ txn = [c \in Callers |-> IdleTxn]
    /\ locks = {}
    /\ RestInit

ConcNext ==
    \/ \E c \in Callers, i \in VxlanIds : reserve_specific_vxlan_query(c, i)
    \/ \E c \in Callers : reserve_specific_vxlan_commit(c)
    \/ \E c \in Callers, r \in VxlanRanges :
          reserve_vxlan_query(c, r[1], r[2])
    \/ \E c \in Callers : reserve_vxlan_commit(c)
    \/ \E c \in Callers, p \in PhysNets, i \in VlanIds :
          reserve_specific_vlan_query(c, p, i)
    \/ \E c \in Callers : reserve_specific_vlan_commit(c)
    \/ \E c \in Callers, r \in VlanRanges :
          reserve_vlan_query(c, r[1], r[2])
    \/ \E c \in Callers : reserve_vlan_commit(c)
    \/ \E c \in Callers, n \in Networks, i \in GreIds :
          reserve_provider_segment_query(c, n, i)
    \/ \E c \in Callers : reserve_provider_segment_commit(c)
    \/ \E c \in Callers, n \in Networks :
          allocate_tenant_segment_query(c, n)
    \/ \E c \in Callers : allocate_tenant_segment_commit(c)
    \/ \E c \in Callers, n \in Networks, sl \in SegmentLists, b \in BOOLEAN :
          allocate_static_segment_begin(c, n, sl, b)
    \/ \E c \in Callers : allocate_static_segment_reserve(c)
    \/ \E c \in Callers : allocate_static_segment_commit(c)

ConcSpec == ConcInit /\ [][ConcNext]_vars

----------------------------------------------------------------------------
(* The id sets of the synchronizers.  Each synchronizer first builds the   *)
(* set of ids of its configured ranges (vlan_ids, vxlan_ids, gre_ids).     *)
(* RangeSpec applies that step alone to one configuration per behaviour,   *)
(* ranges at and above the ceiling included, and records for every range   *)
(* of the configuration which of its ids the set holds.                    *)

(* a range of exactly MaxRangeSize ids *)
ExactRange == <<2, MaxRangeSize + 1>>

ProbeRanges == Ranges(1..MaxVxlanId)

(* configurations: up to two short ranges, or a range at or above the      *)
(* ceiling, alone or after the one-id range below it                       *)
RangeConfigs ==
    {{}} \cup {{r, q} : r, q \in ProbeRanges}
         \cup {{ExactRange}, {OversizedRange},
               {<<1, 1>>, ExactRange}, {<<1, 1>>, OversizedRange}}

(* which ids of range r the id set holds *)
Contribution(r, ids) ==
    IF \A i \in r[1]..r[2] : i \in ids THEN "all"
    ELSE IF \E i \in r[1]..r[2] : i \in ids THEN "some"
    ELSE "none"

Contributions(ranges, ids) ==
    {[range |-> r, ids |-> Contribution(r, ids)] : r \in ranges}

IdSetOps == {"vlan_ids", "vxlan_ids", "gre_ids"}

(* sync_vlan_allocations: vlan_ids of one physical network *)
vlan_ids ==
    /\ driver = "vlan"
    /\ last.op = "configured"
    /\ last' = Call("vlan_ids", "", 0, last.ranges, "", "ok", 0, "")
    /\ before' = Contributions(last.ranges, VlanIdSet(last.ranges))
    /\ UNCHANGED <<scenario, synced, holders, earlier>>
    /\ UnchangedOthers({})

(* sync_vxlan_allocations: vxlan_ids *)
vxlan_ids ==
    /\ driver = "vxlan"
    /\ last.op = "configured"
    /\ last' = Call("vxlan_ids", "", 0, last.ranges, "", "ok", 0, "")
    /\ before' = Contributions(last.ranges, VxlanIdSet(last.ranges))
    /\ UNCHANGED <<scenario, synced, holders, earlier>>
    /\ UnchangedOthers({})

(* _sync_gre_allocations: gre_ids, from self.gre_id_ranges *)
gre_ids ==
    /\ driver = "gre"
    /\ last.op = "configured"
    /\ last' = Call("gre_ids", "", 0, gre_id_ranges, "", "ok", 0, "")
    /\ before' = Contributions(gre_id_ranges, GreIdSet(gre_id_ranges))
    /\ UNCHANGED <<scenario, synced, holders, earlier>>
    /\ UnchangedOthers({})

RangeInit ==
    /\ driver \in {"vlan", "vxlan", "gre"}
    /\ \E c \in RangeConfigs :
         /\ last = Call("configured", "", 0, c, "", "", 0, "")
         /\ gre_id_ranges = (IF driver = "gre" THEN c ELSE {})
    /\ vlan_allocations = {}
    /\ vxlan_allocations = {}
    /\ gre_allocations = {}
    /\ before = {}
    /\ scenario = <<>>
    /\ txn = [c \in Callers |-> IdleTxn]
    /\ locks = {}
    /\ RestInit

RangeNext == vlan_ids \/ vxlan_ids \/ gre_ids

RangeSpec == RangeInit /\ [][RangeNext]_vars

----------------------------------------------------------------------------
(* Synchronizations running next to specific reservations.  A synchronizer *)
(* is one transaction: it reads which ids of its ranges have no record     *)
(* (GRE: and which records are stale), and the INSERTs and DELETEs of its  *)
(* flush reach the table when the with block commits.  An INSERT of a key  *)
(* that has a record by then fails (IntegrityError) and the transaction    *)
(* rolls back; a DELETE waits for a row lock and removes the row of its    *)
(* key.  KeySpec runs NumCallers such transactions and specific            *)
(* reservations on one table.                                              *)

SyncTxn(op, add, del) ==
    Txn("flush", op, "", 0, "", [add |-> add, del |-> del], "", 0, "")

(* the keys of the allocation tables: vxlan_id, (physical_network,         *)
(* vlan_id), gre_id                                                        *)
VxlanKeyTaken(tbl, vxlan_id) == VxlanRows(tbl, vxlan_id) # {}

VlanKeyTaken(tbl, physical_network, vlan_id) ==
    VlanRows(tbl, physical_network, vlan_id) # {}

(* Variant of GreKeyTaken: the table has no key.                           *)
GreKeyTakenNever(tbl, gre_id) == FALSE

GreKeyTaken(tbl, gre_id) == GreRows(tbl, gre_id) # {}

sync_vxlan_allocations_query(c, vxlan_id_ranges) ==
    /\ driver = "vxlan"
    /\ txn[c].pc = "idle"
    /\ txn' = [txn EXCEPT ![c] =
           SyncTxn("sync_vxlan_allocations",
                   {i \in VxlanIdSet(vxlan_id_ranges)
                    : VxlanRows(vxlan_allocations, i) = {}},
                   {})]
    /\ ConcUnchanged({})

sync_vxlan_allocations_commit(c) ==
    /\ txn[c].pc = "flush"
    /\ txn[c].op = "sync_vxlan_allocations"
    /\ LET add == txn[c].seen.add
           status == IF \E i \in add : VxlanKeyTaken(vxlan_allocations, i)
                     THEN "IntegrityError" ELSE "ok"
       IN
       /\ vxlan_allocations' =
              IF status # "ok" THEN vxlan_allocations
              ELSE vxlan_allocations \cup
                       {[vxlan_id |-> i, allocated |-> FALSE] : i \in add}
       /\ txn' = [txn EXCEPT ![c] =
              [@ EXCEPT !.pc = "done", !.status = status]]
    /\ ConcUnchanged({"vxlan"})

sync_vlan_allocations_query(c, network_vlan_ranges) ==
    /\ driver = "vlan"
    /\ txn[c].pc = "idle"
    /\ txn' = [txn EXCEPT ![c] =
           SyncTxn("sync_vlan_allocations",
                   {k \in VlanKeySet(network_vlan_ranges)
                    : VlanRows(vlan_allocations, k[1], k[2]) = {}},
                   {})]
    /\ ConcUnchanged({})

sync_vlan_allocations_commit(c) ==
    /\ txn[c].pc = "flush"
    /\ txn[c].op = "sync_vlan_allocations"
    /\ LET add == txn[c].seen.add
           status == IF \E k \in add :
                            VlanKeyTaken(vlan_allocations, k[1], k[2])
                     THEN "IntegrityError" ELSE "ok"
       IN
       /\ vlan_allocations' =
              IF status # "ok" THEN vlan_allocations
              ELSE vlan_allocations \cup
                       {[physical_network |-> k[1], vlan_id |-> k[2],
                         allocated |-> FALSE] : k \in add}
       /\ txn' = [txn EXCEPT ![c] =
              [@ EXCEPT !.pc = "done", !.status = status]]
    /\ ConcUnchanged({"vlan"})

(* _sync_gre_allocations of a process configured with ranges *)
_sync_gre_allocations_query(c, ranges) ==
    /\ driver = "gre"
    /\ txn[c].pc = "idle"
    /\ LET ids == GreIdSet(ranges) IN
       txn' = [txn EXCEPT ![c] =
           SyncTxn("_sync_gre_allocations",
                   {i \in ids : GreRows(gre_allocations, i) = {}},
                   {a.gre_id : a \in {b \in gre_allocations
                                      : b.gre_id \notin ids
                                        /\ ~b.allocated}})]
    /\ ConcUnchanged({})

_sync_gre_allocations_commit(c) ==
    /\ txn[c].pc = "flush"
    /\ txn[c].op = "_sync_gre_allocations"
    /\ LET add == txn[c].seen.add
           del == txn[c].seen.del
           status == IF \E i \in add : GreKeyTaken(gre_allocations, i)
                     THEN "IntegrityError" ELSE "ok"
       IN
       /\ \A i \in del : ~LockedByOther(c, i)
       /\ gre_allocations' =
              IF status # "ok" THEN gre_allocations
              ELSE {a \in gre_allocations : a.gre_id \notin del}
                       \cup {GreAllocation(i, FALSE, None, FALSE)
                             : i \in add}
       /\ txn' = [txn EXCEPT ![c] =
              [@ EXCEPT !.pc = "done", !.status = status]]
    /\ ConcUnchanged({"gre"})

KeyNext ==
    \/ \E c \in Callers, r \in VxlanConfigs :
          sync_vxlan_allocations_query(c, r)
    \/ \E c \in Callers : sync_vxlan_allocations_commit(c)
    \/ \E c \in Callers, m \in VlanRangeDicts :
          sync_vlan_allocations_query(c, m)
    \/ \E c \in Callers : sync_vlan_allocations_commit(c)
    \/ \E c \in Callers, r \in GreConfigs :
          _sync_gre_allocations_query(c, r)
    \/ \E c \in Callers : _sync_gre_allocations_commit(c)
    \/ \E c \in Callers, i \in VxlanIds : reserve_specific_vxlan_query(c, i)
    \/ \E c \in Callers : reserve_specific_vxlan_commit(c)
    \/ \E c \in Callers, p \in PhysNets, i \in VlanIds :
          reserve_specific_vlan_query(c, p, i)
    \/ \E c \in Callers : reserve_specific_vlan_commit(c)
    \/ \E c \in Callers, n \in Networks, i \in GreIds :
          reserve_provider_segment_query(c, n, i)
    \/ \E c \in Callers : reserve_provider_segment_commit(c)

KeySpec == ConcInit /\ [][KeyNext]_vars

----------------------------------------------------------------------------
(* Synchronizations and range removals running next to reservations.  The  *)
(* GRE synchronizer and delete_vxlan_allocations read the table with a     *)
(* plain query and decide from the rows read which records to delete; the  *)
(* DELETEs of the flush name the rows by their key and reach the table     *)
(* when the with block commits.  SyncRaceSpec runs them next to the        *)
(* reservations of a given id and the dynamic reservations.                *)

(* delete_vxlan_allocations: the query and the loop over the rows read *)
delete_vxlan_allocations_query(c, vxlan_id_ranges) ==
    /\ driver = "vxlan"
    /\ txn[c].pc = "idle"
    /\ txn' = [txn EXCEPT ![c] =
           SyncTxn("delete_vxlan_allocations",
                   {},
                   {a.vxlan_id : a \in {b \in vxlan_allocations
                                        : b.vxlan_id
                                              \in VxlanIdSet(vxlan_id_ranges)
                                          /\ ~b.allocated}})]
    /\ ConcUnchanged({})

(* delete_vxlan_allocations: flush and commit *)
delete_vxlan_allocations_commit(c) ==
    /\ txn[c].pc = "flush"
    /\ txn[c].op = "delete_vxlan_allocations"
    /\ vxlan_allocations' =
           {a \in vxlan_allocations : a.vxlan_id \notin txn[c].seen.del}
    /\ txn' = [txn EXCEPT ![c] = [@ EXCEPT !.pc = "done", !.status = "ok"]]
    /\ ConcUnchanged({"vxlan"})

SyncRaceInit ==
    /\ ConcInit
    /\ driver \in {"vxlan", "gre"}

SyncRaceNext ==
    \/ \E c \in Callers, r \in GreConfigs :
          _sync_gre_allocations_query(c, r)
    \/ \E c \in Callers : _sync_gre_allocations_commit(c)
    \/ \E c \in Callers, n \in Networks, i \in GreIds :
          reserve_provider_segment_query(c, n, i)
    \/ \E c \in Callers : reserve_provider_segment_commit(c)
    \/ \E c \in Callers, n \in Networks :
          allocate_tenant_segment_query(c, n)
    \/ \E c \in Callers : allocate_tenant_segment_commit(c)
    \/ \E c \in Callers, r \in VxlanConfigs :
          delete_vxlan_allocations_query(c, r)
    \/ \E c \in Callers : delete_vxlan_allocations_commit(c)
    \/ \E c \in Callers, i \in VxlanIds : reserve_specific_vxlan_query(c, i)
    \/ \E c \in Callers : reserve_specific_vxlan_commit(c)
    \/ \E c \in Callers, r \in VxlanRanges :
          reserve_vxlan_query(c, r[1], r[2])
    \/ \E c \in Callers : reserve_vxlan_commit(c)

SyncRaceSpec == SyncRaceInit /\ [][SyncRaceNext]_vars

----------------------------------------------------------------------------
(* The synchronized pool.  PoolSpec starts when a synchronization has      *)
(* completed for a configuration, on a store that held the records of      *)
(* specific reservations made before; reservations and releases follow,    *)
(* the releases given that same configuration.                             *)

(* the records specific reservations of the keys leave in an empty table *)
ReservedRows(keys) ==
    IF driver = "vlan"
    THEN {[physical_network |-> k[1], vlan_id |-> k[2], allocated |-> TRUE]
          : k \in keys}
    ELSE IF driver = "vxlan"
    THEN {[vxlan_id |-> k[2], allocated |-> TRUE] : k \in keys}
    ELSE {GreAllocation(k[2], TRUE, None, TRUE) : k \in keys}

PoolInit ==
    /\ \/ /\ driver = "vlan"
          /\ \E m \in VlanRangeDicts, keys \in SUBSET (PhysNets \X VlanIds) :
               /\ vlan_allocations = SyncVlanRows(ReservedRows(keys), m)
               /\ synced = [valid |-> TRUE, ranges |-> m]
          /\ vxlan_allocations = {}
          /\ gre_allocations = {}
          /\ gre_id_ranges = {}
       \/ /\ driver = "vxlan"
          /\ \E c \in VxlanConfigs, keys \in SUBSET ({""} \X VxlanIds) :
               /\ vxlan_allocations = SyncVxlanRows(ReservedRows(keys), c)
               /\ synced = [valid |-> TRUE, ranges |-> c]
          /\ vlan_allocations = {}
          /\ gre_allocations = {}
          /\ gre_id_ranges = {}
       \/ /\ driver = "gre"
          /\ \E c \in GreConfigs, keys \in SUBSET ({""} \X GreIds) :
               /\ gre_allocations = SyncGreRows(ReservedRows(keys), c)
               /\ gre_id_ranges = c
               /\ synced = [valid |-> TRUE, ranges |-> c]
          /\ vlan_allocations = {}
          /\ vxlan_allocations = {}
    /\ holders = NotTracked
    /\ earlier = NoEarlier
    /\ managed_objects = {}
    /\ last = NoCall
    /\ before = {}
    /\ scenario = <<>>
    /\ txn = [c \in Callers |-> IdleTxn]
    /\ locks = {}
    /\ vxlan_endpoints = {}
    /\ gre_endpoints = {}
    /\ network_profiles = {}
    /\ client = [username |-> None, authentication |-> None]
    /\ requests = <<>>

PoolNext ==
    \/ \E p \in PhysNets, r \in VlanRanges : reserve_vlan(p, r[1], r[2])
    \/ \E p \in PhysNets, i \in VlanIds : reserve_specific_vlan(p, i)
    \/ \E p \in PhysNets, i \in VlanIds : release_vlan(p, i, synced.ranges)
    \/ \E n \in Networks, i \in GreIds : reserve_provider_segment(n, i)
    \/ \E n \in Networks : allocate_tenant_segment(n)
    \/ \E n \in Networks : release_static_segment(n)
    \/ \E r \in VxlanRanges : reserve_vxlan(r[1], r[2])
    \/ \E i \in VxlanIds : reserve_specific_vxlan(i)
    \/ \E i \in VxlanIds : release_vxlan(i, synced.ranges)

PoolSpec == PoolInit /\ [][PoolNext]_vars

----------------------------------------------------------------------------
(* Tunnel endpoints.  n1kv add_vxlan_endpoint runs on an autocommit        *)
(* session without a transaction: its query, the query of                  *)
(* _generate_vxlan_id and the INSERT of session.flush() are three          *)
(* statements other callers interleave with.  GRE add_endpoint is one      *)
(* transaction: the query, then the INSERT at the commit of the with       *)
(* block.  A row carries the place it took in the table (row), which tells *)
(* rows of equal content apart.  EndpointSpec runs NumCallers callers,     *)
(* each adding one endpoint, on the table of one tunnel type.              *)

Ips == {"10.0.0.1", "10.0.0.2", "10.0.0.3"}

N1kvVxlanEndpoint(tbl, ip, id) ==
    [ip_address |-> ip, id |-> id, row |-> Cardinality(tbl) + 1]

GreEndpoints(tbl, ip_address) ==
    [ip_address |-> ip_address, row |-> Cardinality(tbl) + 1]

EndpointTxn(pc, op, ip, id, status, ret, changed, max_id) ==
    [pc |-> pc, op |-> op, ip |-> ip, id |-> id, status |-> status,
     ret |-> ret, changed |-> changed, max_id |-> max_id]

(* the key of the endpoint tables: ip_address *)
VxlanEndpointKeyTaken(tbl, ip) == \E e \in tbl : e.ip_address = ip

(* Variant of GreEndpointKeyTaken: the table has no key.                   *)
GreEndpointKeyTakenNever(tbl, ip) == FALSE

GreEndpointKeyTaken(tbl, ip) == \E e \in tbl : e.ip_address = ip

MaxOf(ids) == CHOOSE m \in ids : \A i \in ids : i <= m

_generate_vxlan_id(tbl) ==
    LET ids == {vxlan.id : vxlan \in tbl}
    IN  (IF ids # {} THEN MaxOf(ids) ELSE 0) + 1

(* get_vxlan_endpoints / get_endpoints: one entry per row *)
get_vxlan_endpoints ==
    {[id |-> vxlan.id, ip_address |-> vxlan.ip_address, row |-> vxlan.row]
     : vxlan \in vxlan_endpoints}

get_endpoints ==
    {[ip_address |-> gre_endpoint.ip_address, row |-> gre_endpoint.row]
     : gre_endpoint \in gre_endpoints}

EndpointUnchanged(keep) ==
    /\ UnchangedRest(keep)
    /\ UNCHANGED <<driver, vlan_allocations, vxlan_allocations,
                   gre_allocations, gre_id_ranges, last, before, scenario,
                   synced, holders, earlier,
                   locks>>

(* add_vxlan_endpoint: the query by ip_address *)
add_vxlan_endpoint_query(c, ip) ==
    /\ driver = "vxlan"
    /\ txn[c].pc = "idle"
    /\ LET found == {e \in vxlan_endpoints : e.ip_address = ip} IN
       \/ /\ Cardinality(found) = 1
          /\ \E vxlan \in found :
               txn' = [txn EXCEPT ![c] =
                   EndpointTxn("done", "add_vxlan_endpoint", ip, vxlan.id,
                               "ok", vxlan, FALSE, 0)]
       \/ /\ Cardinality(found) > 1
          /\ txn' = [txn EXCEPT ![c] =
                 EndpointTxn("done", "add_vxlan_endpoint", ip, 0,
                             "MultipleResultsFound", None, FALSE, 0)]
       \/ /\ found = {}
          /\ txn' = [txn EXCEPT ![c] =
                 EndpointTxn("generate", "add_vxlan_endpoint", ip, 0, "",
                             None, FALSE, 0)]
    /\ EndpointUnchanged({})

(* add_vxlan_endpoint: the call of _generate_vxlan_id *)
add_vxlan_endpoint_generate(c) ==
    /\ txn[c].pc = "generate"
    /\ txn' = [txn EXCEPT ![c] =
           [@ EXCEPT !.pc = "flush",
                     !.id = _generate_vxlan_id(vxlan_endpoints)]]
    /\ EndpointUnchanged({})

(* add_vxlan_endpoint: session.add and session.flush *)
add_vxlan_endpoint_flush(c) ==
    /\ txn[c].pc = "flush"
    /\ txn[c].op = "add_vxlan_endpoint"
    /\ LET vxlan == N1kvVxlanEndpoint(vxlan_endpoints, txn[c].ip, txn[c].id)
           max_id == _generate_vxlan_id(vxlan_endpoints) - 1
       IN
       IF VxlanEndpointKeyTaken(vxlan_endpoints, txn[c].ip)
       THEN /\ UNCHANGED vxlan_endpoints
            /\ txn' = [txn EXCEPT ![c] =
                   [@ EXCEPT !.pc = "done", !.status = "IntegrityError",
                             !.max_id = max_id]]
       ELSE /\ vxlan_endpoints' = vxlan_endpoints \cup {vxlan}
            /\ txn' = [txn EXCEPT ![c] =
                   [@ EXCEPT !.pc = "done", !.status = "ok", !.ret = vxlan,
                             !.changed = TRUE, !.max_id = max_id]]
    /\ EndpointUnchanged({"vxlan_endpoints"})

(* GRE add_endpoint: the query by ip_address *)
add_endpoint_query(c, ip) ==
    /\ driver = "gre"
    /\ txn[c].pc = "idle"
    /\ LET found == {e \in gre_endpoints : e.ip_address = ip} IN
       \/ /\ Cardinality(found) = 1
          /\ \E gre_endpoint \in found :
               txn' = [txn EXCEPT ![c] =
                   EndpointTxn("done", "add_endpoint", ip, 0, "ok",
                               gre_endpoint, FALSE, 0)]
       \/ /\ Cardinality(found) > 1
          /\ txn' = [txn EXCEPT ![c] =
                 EndpointTxn("done", "add_endpoint", ip, 0,
                             "MultipleResultsFound", None, FALSE, 0)]
       \/ /\ found = {}
          /\ txn' = [txn EXCEPT ![c] =
                 EndpointTxn("flush", "add_endpoint", ip, 0, "", None,
                             FALSE, 0)]
    /\ EndpointUnchanged({})

(* GRE add_endpoint: the INSERT and the commit at the end of the block *)
add_endpoint_commit(c) ==
    /\ txn[c].pc = "flush"
    /\ txn[c].op = "add_endpoint"
    /\ LET gre_endpoint == GreEndpoints(gre_endpoints, txn[c].ip) IN
       IF GreEndpointKeyTaken(gre_endpoints, txn[c].ip)
       THEN /\ UNCHANGED gre_endpoints
            /\ txn' = [txn EXCEPT ![c] =
                   [@ EXCEPT !.pc = "done", !.status = "IntegrityError"]]
       ELSE /\ gre_endpoints' = gre_endpoints \cup {gre_endpoint}
            /\ txn' = [txn EXCEPT ![c] =
                   [@ EXCEPT !.pc = "done", !.status = "ok",
                             !.ret = gre_endpoint, !.changed = TRUE]]
    /\ EndpointUnchanged({"gre_endpoints"})

(* the endpoints registered before the callers start: none, or one *)
EndpointInit ==
    /\ driver \in {"vxlan", "gre"}
    /\ vlan_allocations = {}
    /\ vxlan_allocations = {}
    /\ gre_allocations = {}
    /\ gre_id_ranges = {}
    /\ last = NoCall
    /\ before = {}
    /\ scenario = <<>>
    /\ synced = NotSynced
    /\ holders = NotTracked
    /\ earlier = NoEarlier
    /\ managed_objects = {}
    /\ txn = [c \in Callers |-> IdleTxn]
    /\ locks = {}
    /\ network_profiles = {}
    /\ client = [username |-> None, authentication |-> None]
    /\ requests = <<>>
    /\ \E registered \in {{}} \cup {{ip} : ip \in Ips} :
         /\ vxlan_endpoints =
                IF driver = "vxlan"
                THEN {N1kvVxlanEndpoint({}, ip, _generate_vxlan_id({}))
                      : ip \in registered}
                ELSE {}
         /\ gre_endpoints =
                IF driver = "gre"
                THEN {GreEndpoints({}, ip) : ip \in registered}
                ELSE {}

EndpointNext ==
    \/ \E c \in Callers, ip \in Ips : add_vxlan_endpoint_query(c, ip)
    \/ \E c \in Callers : add_vxlan_endpoint_generate(c)
    \/ \E c \in Callers : add_vxlan_endpoint_flush(c)
    \/ \E c \in Callers, ip \in Ips : add_endpoint_query(c, ip)
    \/ \E c \in Callers : add_endpoint_commit(c)

EndpointSpec == EndpointInit /\ [][EndpointNext]_vars

----------------------------------------------------------------------------
(* The APIC REST client (apic_client.py).  client is the RestClient:       *)
(* username and authentication; requests lists the HTTP requests it has    *)
(* sent.  The answer of the controller to a request is an input: no        *)
(* response, a status other than 200, status 200 with empty imdata, status *)
(* 200 with imdata, status 200 with imdata whose first entry is an error.  *)
(* ApicSpec runs login, logout and the decorated request methods of one    *)
(* client, up to MaxRequests HTTP requests.                                *)

Responses == {"none", "not_ok", "no_data", "imdata", "error_imdata"}
Users == {"admin"}
RequestFuncs == {"get_data", "_get_mo", "_list_mo", "post_data", "_post_mo"}

ApicCall(op, status, sent) == [op |-> op, status |-> status, sent |-> sent]

(* Variant of wrapper: the check looks at authentication alone.            *)
wrapper_authentication_only(cl, response) ==
    IF cl.authentication = None
    THEN [sent |-> FALSE, status |-> "ApicSessionNotLoggedIn"]
    ELSE [sent |-> TRUE,
          status |-> CASE response = "none" -> "ApicHostNoResponse"
                       [] response = "not_ok" -> "ApicResponseNotOk"
                       [] response = "no_data" -> "ApicManagedObjectNoData"
                       [] OTHER -> "ok"]

(* requestdata: the wrapper around a request method of the session of the  *)
(* client cl; sent tells whether request_func ran, status what the wrapper *)
(* raised                                                                  *)
wrapper(cl, response) ==
    IF cl.username # None /\ cl.authentication = None
    THEN [sent |-> FALSE, status |-> "ApicSessionNotLoggedIn"]
    ELSE [sent |-> TRUE,
          status |-> CASE response = "none" -> "ApicHostNoResponse"
                       [] response = "not_ok" -> "ApicResponseNotOk"
                       [] response = "no_data" -> "ApicManagedObjectNoData"
                       [] OTHER -> "ok"]

ApicUnchanged ==
    /\ UNCHANGED <<driver, vlan_allocations, vxlan_allocations,
                   gre_allocations, gre_id_ranges, scenario, synced, txn,
                   locks, vxlan_endpoints, gre_endpoints, network_profiles,
                   managed_objects, holders, earlier>>

(* the call is over: what it was, and the client it started from *)
ApicCompletes(op, status, sent) ==
    /\ last' = ApicCall(op, status, sent)
    /\ before' = client
    /\ requests' = IF sent THEN Append(requests, op) ELSE requests

(* a decorated request method of ApicSession *)
requestdata(request_func, response) ==
    /\ Len(requests) < MaxRequests
    /\ LET r == wrapper(client, response) IN
       ApicCompletes(request_func, r.status, r.sent)
    /\ UNCHANGED client
    /\ ApicUnchanged

login(usr, response) ==
    /\ Len(requests) < MaxRequests
    /\ LET r == wrapper(client, response) IN
       /\ client' =
              IF r.status # "ok" THEN client
              ELSE IF response = "error_imdata"
              THEN [client EXCEPT !.authentication = None]
              ELSE [username |-> usr, authentication |-> "imdata"]
       /\ ApicCompletes("login",
                        IF r.status = "ok" /\ response = "error_imdata"
                        THEN "ApicLoginFailed" ELSE r.status,
                        r.sent)
    /\ ApicUnchanged

(* Variant of logout: authentication is cleared only when aaaLogout        *)
(* returned data.                                                          *)
logout_clearing_on_data(response) ==
    /\ Len(requests) < MaxRequests
    /\ LET cleared == IF client.username = None
                      THEN [client EXCEPT !.authentication = None]
                      ELSE client
           r == wrapper(cleared, response)
       IN
       IF cleared.authentication # None
       THEN /\ client' = IF r.status = "ok"
                         THEN [cleared EXCEPT !.authentication = None]
                         ELSE cleared
            /\ ApicCompletes("logout",
                             IF r.status = "ApicManagedObjectNoData"
                             THEN "ok" ELSE r.status,
                             r.sent)
       ELSE /\ client' = cleared
            /\ ApicCompletes("logout", "ok", FALSE)
    /\ ApicUnchanged

(* logout: ApicManagedObjectNoData from aaaLogout is expected and caught;  *)
(* any other exception of post_data leaves logout before the last          *)
(* assignment                                                              *)
logout(response) ==
    /\ Len(requests) < MaxRequests
    /\ LET cleared == IF client.username = None
                      THEN [client EXCEPT !.authentication = None]
                      ELSE client
           r == wrapper(cleared, response)
       IN
       IF cleared.authentication # None
       THEN /\ client' = IF r.status \in {"ok", "ApicManagedObjectNoData"}
                         THEN [cleared EXCEPT !.authentication = None]
                         ELSE cleared
            /\ ApicCompletes("logout",
                             IF r.status = "ApicManagedObjectNoData"
                             THEN "ok" ELSE r.status,
                             r.sent)
       ELSE /\ client' = cleared
            /\ ApicCompletes("logout", "ok", FALSE)
    /\ ApicUnchanged

(* RestClient.__init__ without usr and pwd *)
ApicInit ==
    /\ driver = "apic"
    /\ vlan_allocations = {}
    /\ vxlan_allocations = {}
    /\ gre_allocations = {}
    /\ gre_id_ranges = {}
    /\ last = ApicCall("__init__", "ok", FALSE)
    /\ before = [username |-> None, authentication |-> None]
    /\ scenario = <<>>
    /\ txn = [c \in Callers |-> IdleTxn]
    /\ locks = {}
    /\ RestInit

ApicNext ==
    \/ \E f \in RequestFuncs, r \in Responses : requestdata(f, r)
    \/ \E u \in Users, r \in Responses : login(u, r)
    \/ \E r \in Responses : logout(r)

ApicSpec == ApicInit /\ [][ApicNext]_vars

----------------------------------------------------------------------------
(* MoManager (apic_client.py): create and delete of managed objects.       *)
(* managed_objects is the object tree of the controller: one record per    *)
(* distinguished name, with a value for every attribute.  The name of an   *)
(* fvTenant is <<tenant>>, that of an fvBD <<tenant, bd>>: the container   *)
(* of an object is named by the prefix ('uni/tn-%s' and 'uni/tn-%s/BD-%s').*)
(* The controller answers a GET of a name with the object or with empty    *)
(* imdata, creates or modifies on a POST and answers with the object and   *)
(* its status, and removes an object with all it contains on a POST of     *)
(* status deleted.  Which request of a call is answered with a status      *)
(* other than 200 is an input.  MoSpec runs create and delete of one       *)
(* client on the two classes.                                              *)

TenantNames == {"t1"}
BdNames == {"b1", "b2"}
MoParams == {<<t>> : t \in TenantNames}
                \cup {<<t, b>> : t \in TenantNames, b \in BdNames}
AttrNames == {"descr", "ownerKey"}
AttrValues == {"", "a"}
DefaultAttrs == [k \in AttrNames |-> ""]
NoAttrs == [k \in {} |-> ""]
AttrArgs == UNION {[ks -> AttrValues] : ks \in SUBSET AttrNames}

(* the most requests one call sends: GET and POST of the tenant, GET and   *)
(* POST of the bridge domain                                               *)
MaxCallRequests == 4

NoObj == [value |-> "None"]
True == [value |-> "True"]

(* imdata[0][klass]['attributes'] of an answer *)
MoObj(dn, attributes, status) ==
    [dn |-> dn, attributes |-> attributes, status |-> status]

MoCall(op, params, attrs, fault, status, ret, sent) ==
    [op |-> op, params |-> params, attrs |-> attrs, fault |-> fault,
     status |-> status, ret |-> ret, sent |-> sent]

IsPrefix(p, q) == Len(p) <= Len(q) /\ SubSeq(q, 1, Len(p)) = p

MoRows(mos, dn) == {m \in mos : m.dn = dn}

(* the attributes of the object after a POST of data *)
Posted(old, data) ==
    [k \in AttrNames |-> IF k \in DOMAIN data THEN data[k] ELSE old[k]]

(* the tree of the controller after a POST of data to dn *)
ControllerPost(mos, dn, data) ==
    IF "status" \in DOMAIN data /\ data["status"] = "deleted"
    THEN {m \in mos : ~IsPrefix(dn, m.dn)}
    ELSE {m \in mos : m.dn # dn}
             \cup {[dn |-> dn,
                    attributes |->
                        IF MoRows(mos, dn) = {} THEN Posted(DefaultAttrs, data)
                        ELSE Posted((CHOOSE m \in MoRows(mos, dn) : TRUE)
                                        .attributes, data)]}

(* the object the controller answers a POST with *)
ControllerPostReply(mos, dn, data) ==
    IF "status" \in DOMAIN data /\ data["status"] = "deleted"
    THEN MoObj(dn, DefaultAttrs, "deleted")
    ELSE MoObj(dn,
               (CHOOSE m \in MoRows(ControllerPost(mos, dn, data), dn) : TRUE)
                   .attributes,
               IF MoRows(mos, dn) = {} THEN "created" ELSE "modified")

(* the running call: the tree, the requests sent, the exception raised     *)
(* ("ok": none), the object of the last answer and the request to fail     *)
MoRun(mos, fault) ==
    [mos |-> mos, sent |-> <<>>, status |-> "ok", obj |-> NoObj,
     fault |-> fault]

(* a decorated request of the session: _get_mo *)
_get_mo(st, dn) ==
    LET response == IF st.fault = Len(st.sent) + 1 THEN "not_ok"
                    ELSE IF MoRows(st.mos, dn) = {} THEN "no_data"
                    ELSE "imdata"
        r == wrapper(client, response)
        request == [method |-> "GET", dn |-> dn, data |-> NoAttrs]
    IN
    [st EXCEPT !.sent = IF r.sent THEN Append(@, request) ELSE @,
               !.status = r.status,
               !.obj = IF r.status = "ok"
                       THEN MoObj(dn, (CHOOSE m \in MoRows(st.mos, dn) : TRUE)
                                          .attributes, "")
                       ELSE @]

(* a decorated request of the session: _post_mo *)
_post_mo(st, dn, data) ==
    LET response == IF st.fault = Len(st.sent) + 1 THEN "not_ok"
                    ELSE "imdata"
        r == wrapper(client, response)
        request == [method |-> "POST", dn |-> dn, data |-> data]
    IN
    [st EXCEPT !.sent = IF r.sent THEN Append(@, request) ELSE @,
               !.status = r.status,
               !.mos = IF r.status = "ok" THEN ControllerPost(@, dn, data)
                       ELSE @,
               !.obj = IF r.status = "ok"
                       THEN ControllerPostReply(st.mos, dn, data)
                       ELSE @]

_ensure_status(st, status) ==
    IF st.obj.status # status
    THEN [st EXCEPT !.status = "ApicMoStatusChangeFailed"]
    ELSE st

(* Variant of updated_attrs: every attribute given is posted.              *)
updated_attrs_all(obj, attrs) == attrs

(* create: the attributes given whose value differs from that of obj *)
updated_attrs(obj, attrs) ==
    LET differ == {k \in DOMAIN attrs : attrs[k] # obj.attributes[k]} IN
    [k \in differ |-> attrs[k]]

RECURSIVE MoCreate(_, _, _)

(* _create_prereqs: create of the container, without attributes *)
_create_prereqs(st, params) ==
    IF Len(params) > 1
    THEN MoCreate(st, SubSeq(params, 1, Len(params) - 1), NoAttrs)
    ELSE st

(* MoManager.create in the running call st *)
MoCreate(st, params, attrs) ==
    LET prereqs == _create_prereqs(st, params) IN
    IF prereqs.status # "ok" THEN prereqs
    ELSE LET got == _get_mo(prereqs, params) IN
         IF got.status = "ApicManagedObjectNoData"
         THEN LET posted == _post_mo([got EXCEPT !.status = "ok"], params,
                                     attrs)
              IN IF posted.status # "ok" THEN posted
                 ELSE _ensure_status(posted, "created")
         ELSE IF got.status # "ok" THEN got
         ELSE IF DOMAIN updated_attrs(got.obj, attrs) # {}
         THEN _post_mo(got, params, updated_attrs(got.obj, attrs))
         ELSE got

(* MoManager.delete in the running call st *)
MoDelete(st, params) ==
    LET got == _get_mo(st, params) IN
    IF got.status = "ApicManagedObjectNoData"
    THEN [got EXCEPT !.status = "ok", !.obj = True]
    ELSE IF got.status # "ok" THEN got
    ELSE LET posted == _post_mo(got, params, [status |-> "deleted"]) IN
         IF posted.status # "ok" THEN posted
         ELSE _ensure_status(posted, "deleted")

MoUnchanged ==
    /\ UNCHANGED <<driver, vlan_allocations, vxlan_allocations,
                   gre_allocations, gre_id_ranges, scenario, synced, txn,
                   locks, vxlan_endpoints, gre_endpoints, network_profiles,
                   client, requests, holders, earlier>>

(* the call is over: what it was, and the tree it started from *)
MoCompletes(op, params, attrs, st) ==
    /\ managed_objects' = st.mos
    /\ last' = MoCall(op, params, attrs, st.fault, st.status,
                      IF st.status = "ok" THEN st.obj ELSE NoObj, st.sent)
    /\ before' = managed_objects

create(params, attrs, fault) ==
    /\ driver = "apic"
    /\ MoCompletes("create", params, attrs,
                   MoCreate(MoRun(managed_objects, fault), params, attrs))
    /\ MoUnchanged

delete(params, fault) ==
    /\ driver = "apic"
    /\ MoCompletes("delete", params, NoAttrs,
                   MoDelete(MoRun(managed_objects, fault), params))
    /\ MoUnchanged

(* a client that is logged in, or one that has logged out *)
MoInit ==
    /\ driver = "apic"
    /\ vlan_allocations = {}
    /\ vxlan_allocations = {}
    /\ gre_allocations = {}
    /\ gre_id_ranges = {}
    /\ last = MoCall("__init__", <<>>, NoAttrs, 0, "ok", NoObj, <<>>)
    /\ before = {}
    /\ scenario = <<>>
    /\ synced = NotSynced
    /\ holders = NotTracked
    /\ earlier = NoEarlier
    /\ managed_objects = {}
    /\ txn = [c \in Callers |-> IdleTxn]
    /\ locks = {}
    /\ vxlan_endpoints = {}
    /\ gre_endpoints = {}
    /\ network_profiles = {}
    /\ \E a \in {None, "imdata"} :
         client = [username |-> "admin", authentication |-> a]
    /\ requests = <<>>

MoNext ==
    \/ \E p \in MoParams, a \in AttrArgs, f \in 0..MaxCallRequests :
          create(p, a, f)
    \/ \E p \in MoParams, f \in 0..MaxCallRequests : delete(p, f)

MoSpec == MoInit /\ [][MoNext]_vars

----------------------------------------------------------------------------
(* Network profiles of the Nexus1000V plugin (n1kv_db_v2.py).              *)
(* network_profiles is the NetworkProfile table: name, segment_type,       *)
(* physical_network (NULL for VXLAN) and segment_range, the string         *)
(* "<number>-<number>" the administrator gave, kept here as the pair of    *)
(* numbers it spells in the order given.  Two rows never have the same     *)
(* content, since equal content means equal name inside the compared set,  *)
(* so the uuid of a row is left out.  The profile binding written after    *)
(* the profile is not read by the validation and is left out too.          *)
(* ProfileSpec creates profiles one after another from an empty table, as  *)
(* long as the table has fewer than MaxProfiles profiles, and ends with    *)
(* the first creation that is rejected: a rejected creation leaves the     *)
(* table as it was, so the calls after it are the calls possible before it.*)

ProfileNames == {"profile1", "profile2"}
SegmentIds == 1..MaxVxlanId
SegmentRanges == SegmentIds \X SegmentIds

NetworkProfile(name, segment_type, physical_network, segment_range) ==
    [name |-> name, segment_type |-> segment_type,
     physical_network |-> physical_network, segment_range |-> segment_range]

NetworkProfileArgs ==
    {NetworkProfile(n, "vlan", pn, r)
     : n \in ProfileNames, pn \in PhysNets, r \in SegmentRanges}
    \cup {NetworkProfile(n, "vxlan", None, r)
          : n \in ProfileNames, r \in SegmentRanges}

ProfileCall(op, p, status, ret) ==
    [op |-> op, p |-> p, status |-> status, ret |-> ret]

(* sorted(map(int, data.split('-'))) *)
_get_segment_range(data) ==
    IF data[1] <= data[2] THEN data ELSE <<data[2], data[1]>>

(* kwargs with physical_network filters on it, kwargs without returns all *)
_get_network_profiles(tbl, kwargs) ==
    IF "physical_network" \in DOMAIN kwargs
    THEN {prfl \in tbl : prfl.physical_network = kwargs.physical_network}
    ELSE tbl

(* Variant of the overlap test without its third clause, the new range     *)
(* containing the existing one.                                            *)
segment_range_overlaps_ends(seg_min, seg_max, prfl_seg_min, prfl_seg_max) ==
    \/ seg_min >= prfl_seg_min /\ seg_min <= prfl_seg_max
    \/ seg_max >= prfl_seg_min /\ seg_max <= prfl_seg_max

(* the condition of the overlap test in _validate_segment_range_uniqueness *)
segment_range_overlaps(seg_min, seg_max, prfl_seg_min, prfl_seg_max) ==
    \/ seg_min >= prfl_seg_min /\ seg_min <= prfl_seg_max
    \/ seg_max >= prfl_seg_min /\ seg_max <= prfl_seg_max
    \/ seg_min <= prfl_seg_min /\ seg_max >= prfl_seg_max

(* the profiles the new profile p is compared with *)
ComparedProfiles(tbl, p) ==
    IF p.segment_type = "vlan"
    THEN _get_network_profiles(tbl,
                               [physical_network |-> p.physical_network])
    ELSE _get_network_profiles(tbl, <<>>)

(* what the body of the loop raises for the existing profile prfl *)
ProfileError(p, prfl) ==
    IF p.name = prfl.name THEN "NetworkProfile name already exists"
    ELSE LET seg == _get_segment_range(p.segment_range)
             prfl_seg == _get_segment_range(prfl.segment_range) IN
         IF segment_range_overlaps(seg[1], seg[2], prfl_seg[1], prfl_seg[2])
         THEN "segment range overlaps with another profile"
         ELSE None

(* The loop raises at the first profile with an error, in the order the    *)
(* query returns the profiles, which the query leaves open: the messages   *)
(* the call can end with, {None} when it returns.                          *)
_validate_segment_range_uniqueness(tbl, p) ==
    LET msgs == {ProfileError(p, prfl) : prfl \in ComparedProfiles(tbl, p)}
                \ {None} IN
    IF msgs = {} THEN {None} ELSE msgs

ProfileUnchanged ==
    /\ UNCHANGED <<driver, vlan_allocations, vxlan_allocations,
                   gre_allocations, gre_id_ranges, scenario, synced, txn,
                   locks, vxlan_endpoints, gre_endpoints, client, requests,
                   managed_objects, holders, earlier>>

(* NetworkProfile_db_mixin.create_network_profile: the validation, then    *)
(* the insert of create_network_profile(p)                                 *)
create_network_profile(p) ==
    /\ last.status = "ok"
    /\ Cardinality(network_profiles) < MaxProfiles
    /\ \E msg \in _validate_segment_range_uniqueness(network_profiles, p) :
          IF msg = None
          THEN /\ network_profiles' = network_profiles \cup {p}
               /\ last' = ProfileCall("create_network_profile", p, "ok", None)
          ELSE /\ network_profiles' = network_profiles
               /\ last' = ProfileCall("create_network_profile", p,
                                      "InvalidInput", msg)
    /\ before' = network_profiles
    /\ ProfileUnchanged

ProfileInit ==
    /\ driver = "n1kv"
    /\ vlan_allocations = {}
    /\ vxlan_allocations = {}
    /\ gre_allocations = {}
    /\ gre_id_ranges = {}
    /\ last = ProfileCall("__init__", None, "ok", None)
    /\ before = {}
    /\ scenario = <<>>
    /\ txn = [c \in Callers |-> IdleTxn]
    /\ locks = {}
    /\ RestInit

ProfileNext == \E p \in NetworkProfileArgs : create_network_profile(p)

ProfileSpec == ProfileInit /\ [][ProfileNext]_vars

----------------------------------------------------------------------------
(* Who holds which id.  OwnerSpec runs the n1kv reservations and releases  *)
(* of Spec one after another, each made by one of the callers; holders     *)
(* follows what each caller received and has not released.  The functions  *)
(* take no caller: any caller may make any call.                           *)

OwnerInit ==
    /\ driver \in {"vlan", "vxlan"}
    /\ vlan_allocations = {}
    /\ vxlan_allocations = {}
    /\ gre_allocations = {}
    /\ gre_id_ranges = {}
    /\ last = NoCall
    /\ before = {}
    /\ scenario = <<>>
    /\ synced = NotSynced
    /\ holders = [tracked |-> TRUE, held |-> {}]
    /\ earlier = NoEarlier
    /\ managed_objects = {}
    /\ txn = [c \in Callers |-> IdleTxn]
    /\ locks = {}
    /\ vxlan_endpoints = {}
    /\ gre_endpoints = {}
    /\ network_profiles = {}
    /\ client = [username |-> None, authentication |-> None]
    /\ requests = <<>>

OwnerNext ==
    \/ \E m \in VlanRangeMaps : sync_vlan_allocations(m)
    \/ \E p \in PhysNets, r \in VlanRanges : reserve_vlan(p, r[1], r[2])
    \/ \E p \in PhysNets, i \in VlanIds : reserve_specific_vlan(p, i)
    \/ \E p \in PhysNets, i \in VlanIds :
          \E m \in VlanRangeMapsFor(p) : release_vlan(p, i, m)
    \/ \E c \in VxlanConfigs : sync_vxlan_allocations(c)
    \/ \E r \in VxlanRanges : reserve_vxlan(r[1], r[2])
    \/ \E i \in VxlanIds : reserve_specific_vxlan(i)
    \/ \E i \in VxlanIds, c \in VxlanConfigs : release_vxlan(i, c)

OwnerSpec == OwnerInit /\ [][OwnerNext]_vars

----------------------------------------------------------------------------
(* Two calls in a row.  RoundTripSpec runs the synchronizers, the          *)
(* reservations of a given id and the releases of Spec one after another   *)
(* and keeps in earlier the call made before the last one.                 *)

RoundTripInit ==
    /\ driver \in {"vlan", "vxlan", "gre"}
    /\ vlan_allocations = {}
    /\ vxlan_allocations = {}
    /\ gre_allocations = {}
    /\ gre_id_ranges = {}
    /\ last = NoCall
    /\ before = {}
    /\ scenario = <<>>
    /\ synced = NotSynced
    /\ holders = NotTracked
    /\ earlier = [tracked |-> TRUE, call |-> NoCall, rows |-> {}]
    /\ managed_objects = {}
    /\ txn = [c \in Callers |-> IdleTxn]
    /\ locks = {}
    /\ vxlan_endpoints = {}
    /\ gre_endpoints = {}
    /\ network_profiles = {}
    /\ client = [username |-> None, authentication |-> None]
    /\ requests = <<>>

RoundTripNext ==
    \/ \E m \in VlanRangeMaps : sync_vlan_allocations(m)
    \/ \E p \in PhysNets, i \in VlanIds : reserve_specific_vlan(p, i)
    \/ \E p \in PhysNets, i \in VlanIds :
          \E m \in VlanRangeMapsFor(p) : release_vlan(p, i, m)
    \/ \E c \in GreConfigs : initialize(c)
    \/ \E n \in Networks, i \in GreIds : reserve_provider_segment(n, i)
    \/ \E n \in Networks : release_static_segment(n)
    \/ \E c \in VxlanConfigs : sync_vxlan_allocations(c)
    \/ \E i \in VxlanIds : reserve_specific_vxlan(i)
    \/ \E i \in VxlanIds, c \in VxlanConfigs : release_vxlan(i, c)

RoundTripSpec == RoundTripInit /\ [][RoundTripNext]_vars

----------------------------------------------------------------------------
(* Vocabulary of the properties: the table under test and its rows *)

Table ==
    IF driver = "vlan" THEN vlan_allocations
    ELSE IF driver = "vxlan" THEN vxlan_allocations
    ELSE gre_allocations

Scopes == IF driver = "vlan" THEN PhysNets ELSE {""}

AllIds ==
    IF driver = "vlan" THEN VlanIds
    ELSE IF driver = "vxlan" THEN VxlanIds
    ELSE GreIds

RowScope(a) == IF driver = "vlan" THEN a.physical_network ELSE ""

RowId(a) ==
    IF driver = "vlan" THEN a.vlan_id
    ELSE IF driver = "vxlan" THEN a.vxlan_id
    ELSE a.gre_id

RowsAt(tbl, scope, id) ==
    {a \in tbl : RowScope(a) = scope /\ RowId(a) = id}

DeleteOps == {"delete_vlan_allocations", "delete_vxlan_allocations"}
ReleaseOps == {"release_vlan", "release_vxlan", "release_static_segment"}
DynamicOps == {"reserve_vlan", "reserve_vxlan", "allocate_tenant_segment"}
SpecificOps == {"reserve_specific_vlan", "reserve_specific_vxlan",
                "reserve_provider_segment"}

(* the ranges the last call was given for a scope (synchronize, range      *)
(* removal and release)                                                    *)
RangesGiven(scope) ==
    IF driver = "vlan" THEN VlanRangesOf(last.ranges, scope) ELSE last.ranges

(* the ranges among them that the synchronizer expands: the tunnel         *)
(* synchronizers skip a range of more than MaxRangeSize ids                *)
RangesExpanded(scope) ==
    IF driver = "vlan" THEN RangesGiven(scope)
    ELSE {r \in RangesGiven(scope) : r[2] + 1 - r[1] <= MaxRangeSize}

Done(c) == txn[c].pc = "done"

Succeeded(c) == Done(c) /\ txn[c].status = "ok" /\ txn[c].ret # 0

----------------------------------------------------------------------------
(* C1: when all callers have run reserve_specific on the same (scope, id)  *)
(* concurrently, the record being unallocated or absent at the start,      *)
(* exactly one of the calls has succeeded.                                 *)
C1_ExactlyOneSpecificSucceeds ==
    \A s \in Scopes, i \in AllIds :
        (\A c \in Callers : /\ Done(c)
                            /\ txn[c].op \in SpecificOps
                            /\ txn[c].scope = s
                            /\ txn[c].id = i)
            => Cardinality({c \in Callers : Succeeded(c)}) = 1

(* C2: the ids returned to two successful concurrent reserve_dynamic       *)
(* callers are different.                                                  *)
C2_DynamicIdsPairwiseDifferent ==
    \A c1, c2 \in Callers :
        (/\ c1 # c2
         /\ Succeeded(c1) /\ txn[c1].op \in DynamicOps
         /\ Succeeded(c2) /\ txn[c2].op \in DynamicOps)
            => <<txn[c1].ret_scope, txn[c1].ret>>
                   # <<txn[c2].ret_scope, txn[c2].ret>>

(* Range completeness over the ranges R(scope): every id inside one of     *)
(* them has one record; a record that was not there before is unallocated, *)
(* a record that was there is the same record.                             *)
CompleteOver(R(_)) ==
    \A s \in Scopes, i \in AllIds :
        InsideRanges(i, R(s)) =>
            LET now == RowsAt(Table, s, i)
                old == RowsAt(before, s, i)
            IN  /\ Cardinality(now) = 1
                /\ old = {} => \A a \in now : ~a.allocated
                /\ old # {} => now = old

(* C3 as stated: after synchronize, every id inside a configured range has *)
(* a record, new ones unallocated, earlier ones untouched.                 *)
C3_RangeCompleteness ==
    last.op \in SyncOps => CompleteOver(RangesGiven)

(* C3 amended: the same for every configured range the synchronizer        *)
(* expands, that is every range of at most MaxRangeSize ids for the GRE    *)
(* and VXLAN synchronizers and every range for the VLAN synchronizer.      *)
C3_RangeCompletenessExpanded ==
    last.op \in SyncOps => CompleteOver(RangesExpanded)

(* C3 witness: a synchronization that added a record for one id of an      *)
(* expanded range and met an allocated record for another.                 *)
C3_Witness ==
    /\ last.op \in SyncOps
    /\ \E s \in Scopes, i, j \in AllIds :
         /\ InsideRanges(i, RangesExpanded(s))
         /\ InsideRanges(j, RangesExpanded(s))
         /\ RowsAt(before, s, i) = {}
         /\ \E a \in RowsAt(before, s, j) : a.allocated

(* the unallocated records of the table outside every given range *)
StaleRows(tbl) ==
    {a \in tbl : ~a.allocated /\ ~InsideRanges(RowId(a),
                                               RangesGiven(RowScope(a)))}

C5_AllocatedSurvivesSync ==
    last.op \in SyncOps \cup DeleteOps =>
        \A a \in before : a.allocated => a \in Table

(* C5 witness: a synchronization or range removal that met an allocated    *)
(* record inside the ranges and one outside them.                          *)
C5_Witness ==
    /\ last.op \in SyncOps \cup DeleteOps
    /\ \E a, b \in before :
         /\ a.allocated /\ InsideRanges(RowId(a), RangesGiven(RowScope(a)))
         /\ b.allocated /\ ~InsideRanges(RowId(b), RangesGiven(RowScope(b)))

(* C6: a synchronize that directly follows a synchronize with the same     *)
(* configuration leaves the table as it found it.                          *)
C6_SyncIdempotent ==
    last.resync => Table = before

(* C6 witness: a repeated synchronize over a table that holds unallocated  *)
(* in-range records and an allocated record outside the ranges.            *)
C6_Witness ==
    /\ last.resync
    /\ \E a, b \in Table :
         /\ ~a.allocated
         /\ b.allocated /\ ~InsideRanges(RowId(b), RangesGiven(RowScope(b)))

(* the record a release call was about: the one of (scope, id) for n1kv,   *)
(* the ones carrying the network id for GRE                                *)
Released(tbl) ==
    IF driver = "gre" THEN GreRowsOfNetwork(tbl, last.net)
    ELSE RowsAt(tbl, last.scope, last.id)

(* C7: a release of an existing record whose id lies in none of the        *)
(* configured ranges of its scope deletes the record.                      *)
C7_ReleaseOutOfRangeDeletes ==
    (/\ last.op \in ReleaseOps
     /\ last.status = "ok"
     /\ \E a \in Released(before) :
          ~InsideRanges(RowId(a), RangesGiven(RowScope(a))))
        => \A a \in Released(before) :
               RowsAt(Table, RowScope(a), RowId(a)) = {}

(* C8: a release of an existing allocated record whose id lies inside a    *)
(* configured range of its scope leaves the record in the table,           *)
(* unallocated, where reserve_dynamic and reserve_specific find it free.   *)
C8_ReleaseInRangeReturnsToPool ==
    (/\ last.op \in ReleaseOps
     /\ last.status = "ok")
        => \A a \in Released(before) :
               (a.allocated
                /\ InsideRanges(RowId(a), RangesGiven(RowScope(a))))
                   => /\ Cardinality(RowsAt(Table, RowScope(a), RowId(a))) = 1
                      /\ \A b \in RowsAt(Table, RowScope(a), RowId(a)) :
                           /\ ~b.allocated
                           /\ driver = "vlan" =>
                                b \in VlanCandidates(Table, RowId(a),
                                                     RowId(a))
                           /\ driver = "vxlan" =>
                                b \in VxlanCandidates(Table, RowId(a),
                                                      RowId(a))
                           /\ driver = "gre" => b \in GreCandidates(Table)

(* C8 witness: a release that met its record allocated and in range.       *)
C8_Witness ==
    /\ last.op \in ReleaseOps
    /\ last.status = "ok"
    /\ \E a \in Released(before) :
         a.allocated /\ InsideRanges(RowId(a), RangesGiven(RowScope(a)))

(* C9: a release that matches no record returns normally and leaves the    *)
(* table unchanged.                                                        *)
C9_ReleaseAbsentIsNoOp ==
    (last.op \in ReleaseOps /\ Released(before) = {})
        => last.status = "ok" /\ Table = before

(* the scope a dynamic reservation was asked for *)
(* and the unallocated records it could take: those of the scope within    *)
(* the requested bounds (the GRE pool has one scope and no bounds)         *)
FreeForRequest(tbl) ==
    {a \in tbl : /\ ~a.allocated
                 /\ RowScope(a) = last.scope
                 /\ driver # "gre" => InsideRanges(RowId(a), last.ranges)}

(* C10: reserve_dynamic with no unallocated record of the scope within the *)
(* bounds fails with the pool-exhausted error (NoNetworkAvailable).        *)
C10_ExhaustionRaises ==
    (last.op \in DynamicOps /\ FreeForRequest(before) = {})
        => last.status = "NoNetworkAvailable"

----------------------------------------------------------------------------
(* Vocabulary of the reservation properties *)

IdInUseErrors ==
    {"VlanIdInUse", "FlatNetworkInUse", "VxlanIdInUse", "TunnelIdInUse"}

(* the (scope, id) keys a table holds records for *)
Keys(tbl) == {<<RowScope(a), RowId(a)>> : a \in tbl}

(* the records of a table other than those of (scope, id) *)
RowsElsewhere(tbl, scope, id) == tbl \ RowsAt(tbl, scope, id)

(* the bounds a dynamic reservation was made within: the segment range of  *)
(* the profile for n1kv, the configured tunnel ranges for GRE              *)
BoundsGiven == IF driver = "gre" THEN gre_id_ranges ELSE last.ranges

(* the rows the query of the last dynamic reservation matches in a table   *)
DynamicCandidates(tbl) ==
    IF driver = "gre" THEN GreCandidates(tbl)
    ELSE UNION {IF driver = "vlan" THEN VlanCandidates(tbl, r[1], r[2])
                ELSE VxlanCandidates(tbl, r[1], r[2])
                : r \in last.ranges}

DynamicSucceeded ==
    last.op \in DynamicOps /\ last.status = "ok" /\ last.ret # 0

SpecificSucceeded == last.op \in SpecificOps /\ last.status = "ok"

(* C11: the id a successful reserve_dynamic returns lies within the bounds *)
(* of the request, its record was unallocated before the call and is       *)
(* allocated after it, and the call created no record.                     *)
C11_DynamicTakesFreeRecordInBounds ==
    DynamicSucceeded =>
        /\ InsideRanges(last.ret, BoundsGiven)
        /\ Cardinality(RowsAt(before, last.ret_scope, last.ret)) = 1
        /\ \A a \in RowsAt(before, last.ret_scope, last.ret) : ~a.allocated
        /\ Cardinality(RowsAt(Table, last.ret_scope, last.ret)) = 1
        /\ \A a \in RowsAt(Table, last.ret_scope, last.ret) : a.allocated
        /\ Keys(Table) = Keys(before)

(* C11 witness: a successful reserve_dynamic over a table that also held   *)
(* an unallocated record outside the bounds of the request.                *)
C11_Witness ==
    /\ DynamicSucceeded
    /\ driver # "gre"
    /\ \E b \in before : ~b.allocated /\ ~InsideRanges(RowId(b), BoundsGiven)

(* C12: reserve_vlan for a profile of physical network P allocates and     *)
(* returns a record of P only.                                             *)
C12_VlanScopeIsolation ==
    (last.op = "reserve_vlan" /\ last.status = "ok")
        => /\ last.ret_scope = last.scope
           /\ \A a \in before :
                a.physical_network # last.scope => a \in Table

(* C13: reserve_specific of a (scope, id) without a record succeeds and    *)
(* adds one record for it, allocated, inside a configured range or not;    *)
(* the other records stay as they were.                                    *)
C13_SpecificAbsentCreatesAllocated ==
    (last.op \in SpecificOps /\ RowsAt(before, last.scope, last.id) = {})
        => /\ last.status = "ok"
           /\ Cardinality(RowsAt(Table, last.scope, last.id)) = 1
           /\ \A a \in RowsAt(Table, last.scope, last.id) : a.allocated
           /\ RowsElsewhere(Table, last.scope, last.id) = before

(* C13 witness: a reserve_specific of an id without a record: for GRE an   *)
(* id inside a configured range (one the synchronizer skipped), for n1kv   *)
(* an id next to the records of other ids.                                 *)
C13_Witness ==
    /\ last.op \in SpecificOps
    /\ RowsAt(before, last.scope, last.id) = {}
    /\ \/ driver = "gre" /\ InsideRanges(last.id, gre_id_ranges)
       \/ driver # "gre" /\ before # {}

(* C14: reserve_specific of a (scope, id) whose record is unallocated      *)
(* succeeds and leaves one record for it, allocated.                       *)
C14_SpecificFreeFlips ==
    (/\ last.op \in SpecificOps
     /\ \E a \in RowsAt(before, last.scope, last.id) : ~a.allocated)
        => /\ last.status = "ok"
           /\ Cardinality(RowsAt(Table, last.scope, last.id)) = 1
           /\ \A a \in RowsAt(Table, last.scope, last.id) : a.allocated
           /\ Keys(Table) = Keys(before)

(* C14 witness: a reserve_specific that met its record unallocated.        *)
C14_Witness ==
    /\ last.op \in SpecificOps
    /\ \E a \in RowsAt(before, last.scope, last.id) : ~a.allocated
    /\ Cardinality(before) > 1

(* C15: reserve_specific of a (scope, id) whose record is allocated fails  *)
(* with the id-in-use error of the segment type and changes no record.     *)
C15_SpecificAllocatedFails ==
    (/\ last.op \in SpecificOps
     /\ \E a \in RowsAt(before, last.scope, last.id) : a.allocated)
        => /\ last.status \in IdInUseErrors
           /\ Table = before

(* C15 witness: a reserve_specific that met its record allocated, for GRE  *)
(* by a different network.                                                 *)
C15_Witness ==
    /\ last.op \in SpecificOps
    /\ \E a \in RowsAt(before, last.scope, last.id) :
         /\ a.allocated
         /\ driver = "gre" => a.network_id \notin {last.net, None}

(* C16: when all callers have run reserve_specific on the same (scope, id) *)
(* concurrently, the record being unallocated or absent at the start, one  *)
(* call has succeeded and every other call has failed with the id-in-use   *)
(* error.                                                                  *)
C16_RaceLoserGetsIdInUse ==
    \A s \in Scopes, i \in AllIds :
        (\A c \in Callers : /\ Done(c)
                            /\ txn[c].op \in SpecificOps
                            /\ txn[c].scope = s
                            /\ txn[c].id = i)
            => \E w \in Callers :
                 /\ Succeeded(w)
                 /\ \A c \in Callers \ {w} : txn[c].status \in IdInUseErrors

(* C17: in the scenario (synchronize an empty store with one range, then   *)
(* dynamic reservations over it) the first reservations, one per id of the *)
(* range, succeed and return every id of the range once; the next one      *)
(* fails with NoNetworkAvailable; after the release of an id the following *)
(* reservation returns that id.                                            *)
C17_Scenario ==
    LET n == Len(scenario)
        allocs == 2..(MaxVxlanId + 1)
    IN  /\ \A p \in allocs : p <= n => scenario[p].status = "ok"
        /\ n >= MaxVxlanId + 1 =>
               {scenario[p].ret : p \in allocs} = ScenarioRange[1]..ScenarioRange[2]
        /\ n >= MaxVxlanId + 2 =>
               scenario[MaxVxlanId + 2].status = "NoNetworkAvailable"
        /\ n >= MaxVxlanId + 4 =>
               /\ scenario[MaxVxlanId + 4].status = "ok"
               /\ scenario[MaxVxlanId + 4].ret = scenario[MaxVxlanId + 3].id

(* C17 witness: the scenario run to its end, the released id being one of  *)
(* the range.                                                              *)
C17_Witness ==
    /\ Len(scenario) = ScenarioLen
    /\ scenario[MaxVxlanId + 3].id \in ScenarioRange[1]..ScenarioRange[2]

(* C18: the record a successful reserve_dynamic takes is determined by the *)
(* table and the arguments: the query matches one row only, so nothing     *)
(* but the table decides which row first() yields.                         *)
C18_DeterministicSelection ==
    DynamicSucceeded => Cardinality(DynamicCandidates(before)) = 1

(* C19: a successful reserve_specific leaves the record of the requested   *)
(* (scope, id) allocated, reports that id, and changes no other record.    *)
C19_SpecificAllocatesRequestedOnly ==
    SpecificSucceeded =>
        /\ last.ret = last.id
        /\ last.ret_scope = last.scope
        /\ Cardinality(RowsAt(Table, last.scope, last.id)) = 1
        /\ \A a \in RowsAt(Table, last.scope, last.id) : a.allocated
        /\ RowsElsewhere(Table, last.scope, last.id)
               = RowsElsewhere(before, last.scope, last.id)

(* C19 witness: a successful reserve_specific over a table that holds an   *)
(* unallocated record of the same id in another scope, or of another id.   *)
C19_Witness ==
    /\ SpecificSucceeded
    /\ \E b \in RowsElsewhere(before, last.scope, last.id) :
         /\ ~b.allocated
         /\ driver = "vlan" => RowId(b) = last.id

(* C20: in each of the three synchronizers a configured range of more     *)
(* than MaxRangeSize ids adds no id to the id set, and every other range   *)
(* of the same configuration, one of exactly MaxRangeSize ids included,    *)
(* adds all of its ids.                                                    *)
C20_OversizedRangesSkipped ==
    last.op \in IdSetOps =>
        \A e \in before :
            e.ids = IF e.range[2] - e.range[1] + 1 > MaxRangeSize
                    THEN "none" ELSE "all"

----------------------------------------------------------------------------
(* C21: a synchronization that failed part-way has left no change on the   *)
(* scope it failed at, and every scope whose synchronization it had        *)
(* completed before the failure still has a record for each id of its      *)
(* ranges.                                                                 *)
C21_SyncAtomicPerScope ==
    last.op \in SyncErrorOps =>
        /\ {a \in Table : RowScope(a) = last.scope}
               = {a \in before : RowScope(a) = last.scope}
        /\ \A s \in last.completed :
               \A r \in RangesExpanded(s), i \in AllIds :
                   (r[1] <= i /\ i <= r[2]) => RowsAt(Table, s, i) # {}

----------------------------------------------------------------------------
(* c waits for a row lock that d holds *)
WaitsFor(c, d) ==
    /\ c # d
    /\ txn[c].pc = "static"
    /\ txn[c].todo # <<>>
    /\ <<Head(txn[c].todo), d>> \in locks

(* C22: no set of transactions is reachable in which every member waits    *)
(* for a row lock held by a member of the set.                             *)
C22_NoDeadlock ==
    ~\E waiting \in SUBSET Callers \ {{}} :
         \A c \in waiting : \E d \in waiting : WaitsFor(c, d)

----------------------------------------------------------------------------
(* The endpoint table under test and the listing of it *)
Endpoints == IF driver = "vxlan" THEN vxlan_endpoints ELSE gre_endpoints

List == IF driver = "vxlan" THEN get_vxlan_endpoints ELSE get_endpoints

AddOps == {"add_vxlan_endpoint", "add_endpoint"}

(* C23: the listing holds every ip at most once, and an Add that finds its *)
(* ip registered returns the endpoint registered and writes nothing.       *)
C23_EndpointsDeduplicated ==
    /\ \A e1, e2 \in List : e1.ip_address = e2.ip_address => e1 = e2
    /\ \A c \in Callers :
          (Done(c) /\ txn[c].op \in AddOps /\ txn[c].status = "ok"
               /\ ~txn[c].changed)
              => /\ txn[c].ret \in Endpoints
                 /\ txn[c].ret.ip_address = txn[c].ip

(* an Add has found its ip registered, next to an Add that registered one *)
C23_Witness ==
    /\ \E c \in Callers :
          Done(c) /\ txn[c].op \in AddOps /\ txn[c].status = "ok"
              /\ ~txn[c].changed
    /\ \E c \in Callers :
          Done(c) /\ txn[c].op \in AddOps /\ txn[c].status = "ok"
              /\ txn[c].changed

(* C24: a new n1kv endpoint receives the greatest id of the table plus     *)
(* one, and no two endpoints of the table have the same id.                *)
C24_EndpointIdsUnique ==
    /\ \A c \in Callers :
          (Done(c) /\ txn[c].op = "add_vxlan_endpoint" /\ txn[c].changed)
              => txn[c].ret.id = txn[c].max_id + 1
    /\ \A e1, e2 \in vxlan_endpoints : e1.id = e2.id => e1 = e2

----------------------------------------------------------------------------
(* the ranges of the synchronized configuration for a scope, and those     *)
(* among them that the synchronizer expands                                *)
SyncedRanges(scope) ==
    IF driver = "vlan" THEN VlanRangesOf(synced.ranges, scope)
    ELSE synced.ranges

SyncedRangesExpanded(scope) ==
    IF driver = "vlan" THEN SyncedRanges(scope)
    ELSE {r \in SyncedRanges(scope) : r[2] + 1 - r[1] <= MaxRangeSize}

(* C25 as stated: after the synchronization of a configuration and any     *)
(* reservations and releases, every id inside a range of the configuration *)
(* has a record.                                                           *)
C25_PoolComplete ==
    synced.valid =>
        \A s \in Scopes, i \in AllIds :
            InsideRanges(i, SyncedRanges(s)) => RowsAt(Table, s, i) # {}

(* C25 amended: after the synchronization of a configuration and any       *)
(* reservations and releases, every id inside a range of the configuration *)
(* that the synchronizer expands (for the tunnel types, a range of at most *)
(* MaxRangeSize ids) has a record.                                         *)
C25_PoolCompleteExpanded ==
    synced.valid =>
        \A s \in Scopes, i \in AllIds :
            InsideRanges(i, SyncedRangesExpanded(s))
                => RowsAt(Table, s, i) # {}

(* an id of the synchronized configuration was reserved and is released *)
C25_Witness ==
    /\ synced.valid
    /\ last.op \in ReleaseOps
    /\ last.status = "ok"
    /\ \E s \in Scopes :
          /\ InsideRanges(last.id, SyncedRangesExpanded(s))
          /\ \E a \in RowsAt(before, s, last.id) : a.allocated

----------------------------------------------------------------------------
SyncTxnOps == {"sync_vlan_allocations", "sync_vxlan_allocations",
               "_sync_gre_allocations"}

(* C26: the table holds at most one record per (scope, id).                *)
C26_OneRecordPerKey ==
    \A a1, a2 \in Table :
        (RowScope(a1) = RowScope(a2) /\ RowId(a1) = RowId(a2)) => a1 = a2

(* a synchronization and a specific reservation both went to create the    *)
(* record of one absent id, or two synchronizations did; one of the two    *)
(* has written its record and the other has failed                         *)
C26_Witness ==
    \E c1, c2 \in Callers :
        /\ c1 # c2
        /\ Done(c1) /\ Done(c2)
        /\ txn[c1].op \in SyncTxnOps
        /\ \/ /\ txn[c2].op \in SpecificOps
              /\ txn[c2].seen = "absent"
              /\ \E k \in txn[c1].seen.add :
                    k = IF driver = "vlan"
                        THEN <<txn[c2].scope, txn[c2].id>> ELSE txn[c2].id
           \/ /\ txn[c2].op \in SyncTxnOps
              /\ txn[c1].seen.add \cap txn[c2].seen.add # {}
        /\ {txn[c1].status, txn[c2].status} = {"ok", "IntegrityError"}

----------------------------------------------------------------------------
(* C27: when logout has returned, the authentication of the client is      *)
(* None.                                                                   *)
C27_LogoutClearsAuthentication ==
    (last.op = "logout" /\ last.status = "ok")
        => client.authentication = None

(* logout has returned on a client that was logged in, aaaLogout sent *)
C27_Witness ==
    /\ last.op = "logout"
    /\ last.status = "ok"
    /\ last.sent
    /\ before.authentication # None
    /\ client.authentication = None

(* C30: a request on a client with a username and no authentication raises *)
(* ApicSessionNotLoggedIn and sends nothing; a request on a client without *)
(* username is sent.                                                       *)
C30_NotLoggedInBeforeRequest ==
    last.op \in RequestFuncs =>
        /\ (before.username # None /\ before.authentication = None)
               => (last.status = "ApicSessionNotLoggedIn" /\ ~last.sent)
        /\ before.username = None
               => (last.status # "ApicSessionNotLoggedIn" /\ last.sent)

(* a request was refused on a client that had logged out *)
C30_Witness ==
    /\ last.op \in RequestFuncs
    /\ before.username # None
    /\ before.authentication = None
    /\ last.status = "ApicSessionNotLoggedIn"
    /\ ~last.sent

----------------------------------------------------------------------------
(* the records of tbl that are unallocated and have their id inside the    *)
(* ranges given for their scope, and inside those of them that the range   *)
(* removal expands                                                         *)
UnallocatedInsideGiven(tbl) ==
    {a \in tbl : /\ ~a.allocated
                 /\ InsideRanges(RowId(a), RangesGiven(RowScope(a)))}

UnallocatedInsideExpanded(tbl) ==
    {a \in tbl : /\ ~a.allocated
                 /\ InsideRanges(RowId(a), RangesExpanded(RowScope(a)))}

(* C28 as stated: range removal deletes the unallocated records with an id *)
(* inside the ranges given for their scope, and no other record.           *)
C28_RangeRemovalExact ==
    last.op \in DeleteOps =>
        Table = before \ UnallocatedInsideGiven(before)

(* C28 amended: range removal deletes the unallocated records with an id   *)
(* inside a range given for their scope that the function expands (VXLAN:  *)
(* a range of at most MaxRangeSize ids), and no other record.              *)
C28_RangeRemovalExactExpanded ==
    last.op \in DeleteOps =>
        Table = before \ UnallocatedInsideExpanded(before)

(* a range removal that deleted a record and met an unallocated record it  *)
(* had to leave in place                                                   *)
C28_Witness ==
    /\ last.op \in DeleteOps
    /\ before \ Table # {}
    /\ \E a \in Table : ~a.allocated

(* C29 -- network-profile segment ranges stay disjoint.  In every state of *)
(* ProfileSpec: a create_network_profile call ended with InvalidInput      *)
(* exactly when the [min,max] range of the new profile intersects the      *)
(* range of a profile it was compared with (the profiles of the same       *)
(* physical network for VLAN, all profiles for VXLAN); the three-clause    *)
(* test equals "the intervals intersect" for every pair of ranges; and the *)
(* ranges of the profiles of one scope are pairwise disjoint.              *)
RangeIds(segment_range) ==
    LET seg == _get_segment_range(segment_range) IN seg[1]..seg[2]

Intersect(r, s) == RangeIds(r) \cap RangeIds(s) # {}

SameProfileScope(x, y) ==
    /\ x.segment_type = y.segment_type
    /\ x.physical_network = y.physical_network

ThreeClauseTestIsIntersect ==
    \A r \in SegmentRanges, s \in SegmentRanges :
       LET seg == _get_segment_range(r)
           prfl_seg == _get_segment_range(s) IN
       segment_range_overlaps(seg[1], seg[2], prfl_seg[1], prfl_seg[2])
       <=> Intersect(r, s)

ProfileRangesDisjoint ==
    \A x \in network_profiles, y \in network_profiles :
       x # y /\ SameProfileScope(x, y)
       => ~Intersect(x.segment_range, y.segment_range)

RangeTaken(tbl, p) ==
    \E prfl \in ComparedProfiles(tbl, p) :
       Intersect(p.segment_range, prfl.segment_range)

NameTaken(tbl, p) ==
    \E prfl \in ComparedProfiles(tbl, p) : prfl.name = p.name

C29_RangesStayDisjoint ==
    /\ last.op = "create_network_profile"
       => (last.status = "InvalidInput" <=> RangeTaken(before, last.p))
    /\ ThreeClauseTestIsIntersect
    /\ ProfileRangesDisjoint

(* C29, amended: the call ended with InvalidInput exactly when the name of *)
(* the new profile is the name of, or its range intersects the range of,   *)
(* a profile it was compared with; the rest as stated.                     *)
C29_RangesStayDisjointOrNameTaken ==
    /\ last.op = "create_network_profile"
       => (last.status = "InvalidInput"
           <=> NameTaken(before, last.p) \/ RangeTaken(before, last.p))
    /\ ThreeClauseTestIsIntersect
    /\ ProfileRangesDisjoint

(* a profile under a new name whose range, given in reverse, contains the  *)
(* range of a profile of its scope with neither end inside it was rejected *)
(* for the overlap                                                         *)
C29_Witness ==
    /\ last.op = "create_network_profile"
    /\ last.status = "InvalidInput"
    /\ last.ret = "segment range overlaps with another profile"
    /\ last.p.segment_range[1] > last.p.segment_range[2]
    /\ ~NameTaken(before, last.p)
    /\ \E prfl \in ComparedProfiles(before, last.p) :
          /\ SameProfileScope(prfl, last.p)
          /\ RangeIds(prfl.segment_range)
                \subseteq RangeIds(last.p.segment_range)
          /\ _get_segment_range(last.p.segment_range)[1]
                \notin RangeIds(prfl.segment_range)
          /\ _get_segment_range(last.p.segment_range)[2]
                \notin RangeIds(prfl.segment_range)

----------------------------------------------------------------------------
(* C38: a login on a client that has logged out (username set,             *)
(* authentication None) is not refused by the not-logged-in check of the   *)
(* client, and when it returns the client has an authentication and a      *)
(* username.                                                               *)
C38_LoginAfterLogout ==
    (last.op = "login" /\ before.username # None
         /\ before.authentication = None)
        => /\ last.status # "ApicSessionNotLoggedIn"
           /\ last.status = "ok"
                  => (client.authentication # None /\ client.username # None)

----------------------------------------------------------------------------
(* C32 -- frame of the allocator operations.  After reserve_specific       *)
(* (scope, id) or release (scope, id), every record other than (scope, id) *)
(* is as it was; after a reserve_dynamic that returned an id, the record   *)
(* returned has changed and every other record is as it was; after a       *)
(* reserve that failed, the table is as it was.                            *)
C32_Frame ==
    /\ last.op \in SpecificOps \cup ReleaseOps
          => RowsElsewhere(Table, last.scope, last.id)
                 = RowsElsewhere(before, last.scope, last.id)
    /\ DynamicSucceeded
          => /\ RowsElsewhere(Table, last.ret_scope, last.ret)
                    = RowsElsewhere(before, last.ret_scope, last.ret)
             /\ RowsAt(Table, last.ret_scope, last.ret)
                    # RowsAt(before, last.ret_scope, last.ret)
    /\ (/\ last.op \in SpecificOps \cup DynamicOps
        /\ (last.status # "ok" \/ last.ret = 0))
          => Table = before

(* a reserve_dynamic has returned one of several free records, the others  *)
(* still free; or a reserve_specific has taken a VLAN whose tag is free on *)
(* the other physical network too                                          *)
C32_Witness ==
    \/ /\ last.op \in DynamicOps
       /\ last.status = "ok"
       /\ last.ret # 0
       /\ \E a \in Table : ~a.allocated /\ a \in before
    \/ /\ last.op = "reserve_specific_vlan"
       /\ last.status = "ok"
       /\ \E a \in Table : /\ a.vlan_id = last.id
                           /\ a.physical_network # last.scope
                           /\ ~a.allocated
                           /\ a \in before

----------------------------------------------------------------------------
(* the callers that hold (scope, id) *)
HoldersOf(scope, id) ==
    {c \in Callers : <<c, scope, id>> \in holders.held}

(* C33 -- unique ownership over sequences: in every state of OwnerSpec     *)
(* each (scope, id) is held by at most one caller, and the record of a     *)
(* held (scope, id) is allocated.                                          *)
C33_UniqueOwnership ==
    \A s \in Scopes, i \in AllIds :
        /\ Cardinality(HoldersOf(s, i)) <= 1
        /\ HoldersOf(s, i) # {}
              => \E a \in RowsAt(Table, s, i) : a.allocated

----------------------------------------------------------------------------
(* the records of a table as the round trip sees them: the key and the     *)
(* allocated flag                                                          *)
RecordFlags(tbl) == {<<RowScope(a), RowId(a), a.allocated>> : a \in tbl}

(* the last call releases what the call before it reserved: the same scope *)
(* and id for n1kv, the network of the reservation for GRE                 *)
ReleasesEarlier ==
    /\ earlier.tracked
    /\ earlier.call.op \in SpecificOps
    /\ earlier.call.status = "ok"
    /\ last.op \in ReleaseOps
    /\ IF driver = "gre" THEN last.net = earlier.call.net
       ELSE last.scope = earlier.call.scope /\ last.id = earlier.call.id

(* C34: a successful reservation of a given id immediately followed by    *)
(* the release of that id leaves the records and their allocated flags as  *)
(* they were before the reservation.                                       *)
C34_RoundTrip ==
    ReleasesEarlier => RecordFlags(Table) = RecordFlags(earlier.rows)

(* C35: an id reserved for a network through reserve_provider_segment, in  *)
(* the pool or outside it, is freed by the release_static_segment of that  *)
(* network that follows: the release finds the record, and no allocated    *)
(* record of the id is left.                                               *)
C35_ReleasedWithNetwork ==
    (driver = "gre" /\ ReleasesEarlier)
        => /\ last.status = "ok"
           /\ \A a \in GreRows(gre_allocations, earlier.call.id) : ~a.allocated

(* C36: in the GRE table at most one record carries a given network_id.    *)
C36_OneRecordPerNetwork ==
    driver = "gre"
        => \A n \in Networks :
               Cardinality(GreRowsOfNetwork(gre_allocations, n)) <= 1

----------------------------------------------------------------------------
(* the transactions that delete records from what they read *)
PurgeTxnOps == {"_sync_gre_allocations", "delete_vxlan_allocations"}

(* C37: once a synchronization or range removal and the reservations that  *)
(* ran next to it have all committed, every id whose reservation succeeded *)
(* has an allocated record.                                                *)
C37_ReservationSurvivesSync ==
    (/\ \A c \in Callers : Done(c)
     /\ \E c \in Callers : txn[c].op \in PurgeTxnOps)
        => \A c \in Callers :
               (Succeeded(c) /\ txn[c].op \in SpecificOps \cup DynamicOps)
                   => \E a \in RowsAt(Table, "", txn[c].ret) : a.allocated

----------------------------------------------------------------------------
(* the POSTs among the requests the last call sent *)
Posts == {i \in DOMAIN last.sent : last.sent[i].method = "POST"}

(* the object of the last call as it was when the call began *)
ObjBefore ==
    MoObj(last.params,
          (CHOOSE m \in MoRows(before, last.params) : TRUE).attributes, "")

(* the attributes the last call was given that differ from the object *)
Differing ==
    {k \in DOMAIN last.attrs : last.attrs[k] # ObjBefore.attributes[k]}

(* the call ran with a logged-in client and every request was answered *)
Answered == client.authentication # None /\ last.fault = 0

(* C31: create of an object that exists with no differing attribute sends  *)
(* no POST, leaves the tree as it is and returns the existing object; with *)
(* differing attributes it sends one POST, to the object, that carries     *)
(* those attributes and no other.  delete of an object that does not exist *)
(* sends no POST, leaves the tree as it is and returns True.               *)
C31_CreateDeleteIdempotent ==
    /\ (last.op = "create" /\ MoRows(before, last.params) # {})
           => /\ \A i \in Posts :
                    /\ last.sent[i].dn = last.params
                    /\ DOMAIN last.sent[i].data = Differing
                    /\ \A k \in Differing :
                           last.sent[i].data[k] = last.attrs[k]
              /\ Cardinality(Posts) <= 1
              /\ Differing = {}
                     => /\ Posts = {}
                        /\ managed_objects = before
                        /\ Answered => /\ last.status = "ok"
                                       /\ last.ret = ObjBefore
              /\ (Differing # {} /\ Answered)
                     => /\ Cardinality(Posts) = 1
                        /\ last.status = "ok"
    /\ (last.op = "delete" /\ MoRows(before, last.params) = {})
           => /\ Posts = {}
              /\ managed_objects = before
              /\ Answered => /\ last.status = "ok"
                             /\ last.ret = True

(* C31 witness: a create given both attributes, with the values they have, *)
(* on a bridge domain that exists with attributes other than the defaults  *)
(* has returned the object without a POST.                                 *)
C31_Witness ==
    /\ last.op = "create"
    /\ Len(last.params) = 2
    /\ MoRows(before, last.params) # {}
    /\ ObjBefore.attributes # DefaultAttrs
    /\ DOMAIN last.attrs = AttrNames
    /\ Differing = {}
    /\ last.status = "ok"
    /\ last.ret = ObjBefore
    /\ Posts = {}
====
